---- MODULE Spec2Model ----
(***************************************************************************)
(* Model of the tag canonicalization and ratio-derivation core of          *)
(* financial_data_pipeline.py: the alias table and its reverse index,      *)
(* load_and_merge_data (filter, rename, pivot first-wins, inner join),     *)
(* calculate_financial_ratios (required-field filter, zero denominators,   *)
(* X1..X5, z_score, roe, eps, rounding) and get_prediction; of             *)
(* save_results_to_db, main_process and diagnose_missing_tags_v2; and of   *)
(* the checkpointed labelling run of parse_8k_bankruptcy.py.               *)
(*                                                                         *)
(* Cells of a data frame are records [kind, val]: a number, NaN (pandas'   *)
(* missing value) or a non-numeric string.  Ratios are exact rationals     *)
(* rounded half-to-even, as numpy rounds; outputs are integers in units of *)
(* 10^-4 (X1..X5, roe), 10^-3 (z_score) and 10^-2 (eps).                   *)
(***************************************************************************)
EXTENDS Integers, Sequences, FiniteSets, TLC

VARIABLES
    \* --- tag canonicalizer ---
    canonical_map,      \* the alias table handed to get_tag_rename_map
    tag_rename_map,     \* the reverse index it returned
    lookup,             \* the last lookup made in the index: [label, result]
    pcCanon             \* "start" | "built" | "rebuilt"

canonVars == <<canonical_map, tag_rename_map, lookup, pcCanon>>

VARIABLES
    \* --- filing assembler ---
    files_exist,        \* sub.txt and num.txt both exist under quarter_path
    sub,                \* the batch's metadata table: rows [adsh, fp]
    num,                \* the batch's fact table: rows [adsh, tag, dim, value]
    df_merged,          \* the frame load_and_merge_data returned
    pcAsm               \* "start" | "returned"

asmVars == <<files_exist, sub, num, df_merged, pcAsm>>

VARIABLES
    \* --- ratio engine and risk classifier ---
    df,                 \* the frame handed to calculate_financial_ratios
    df_results,         \* what the call gave: [status, rows]
    z,                  \* the score handed to get_prediction
    prediction,         \* the label it returned
    pcRatio             \* "start" | "returned" | "raised" | "classify" | "classified"

ratioVars == <<df, df_results, z, prediction, pcRatio>>

VARIABLES
    \* --- result store ---
    results_list,       \* the rows handed to save_results_to_db
    db_table,           \* financial_analysis_results: a set of rows, unique on (adsh, period)
    pcDb                \* "start" | "saved" | "failed"

dbVars == <<results_list, db_table, pcDb>>

VARIABLES
    \* --- main_process ---
    target_year,        \* the year asked for, None for a full scan
    quarter_dirs,       \* the batches of the run, in glob order
    q_idx,              \* the batches the loop has been through
    outcomes,           \* what load_and_merge_data gave for each of them
    all_combined_data,  \* the non-empty frames collected so far
    df_final,           \* the frame handed to calculate_financial_ratios
    run_results,        \* what that call gave: [status, rows]
    pcRun               \* "loading" | "raised" | "no_data" | "no_results" | "done"

runVars == <<target_year, quarter_dirs, q_idx, outcomes, all_combined_data,
             df_final, run_results, pcRun>>

VARIABLES
    \* --- diagnose_missing_tags_v2 ---
    diag_adsh,          \* the accession id of the registrant's latest annual filing
    diag_num,           \* num.txt of that filing's quarter directory: rows [adsh, tag, dim, value]
    diag_report,        \* what the last call printed
    pcDiag              \* "start" | "reported"

diagVars == <<diag_adsh, diag_num, diag_report, pcDiag>>

VARIABLES
    \* --- parse_8k_bankruptcy.py: main ---
    input_index,        \* the data rows of INPUT_FILE
    out_file,           \* the content of OUTPUT_FILE on disk, as text tokens
    out_buffer,         \* what has been written to outfile and not yet flushed
    last_processed_path,\* the checkpoint the run read, NoPath for None
    found_checkpoint,   \* the run has met the checkpointed row
    reader_pos,         \* the input rows the loop has been through
    processed,          \* the input rows the run took to normal processing
    failed_downloads,   \* some download of some run gave no text
    runs,               \* the runs started so far
    pcLabel             \* "idle" | "running" | "written" | "done"

labelVars == <<input_index, out_file, out_buffer, last_processed_path, found_checkpoint,
               reader_pos, processed, failed_downloads, runs, pcLabel>>

vars == <<canonVars, asmVars, ratioVars, dbVars, runVars, diagVars, labelVars>>

\* what each component leaves alone
canonOthers == <<asmVars, ratioVars, dbVars, runVars, diagVars, labelVars>>
asmOthers == <<canonVars, ratioVars, dbVars, runVars, diagVars, labelVars>>
ratioOthers == <<canonVars, asmVars, dbVars, runVars, diagVars, labelVars>>
dbOthers == <<canonVars, asmVars, ratioVars, runVars, diagVars, labelVars>>
runOthers == <<canonVars, asmVars, ratioVars, diagVars, labelVars>>
diagOthers == <<asmVars, ratioVars, dbVars, runVars, labelVars>>
labelOthers == <<canonVars, asmVars, ratioVars, dbVars, runVars, diagVars>>

------------------------------------------------------------------------------
(* Cells *)

NaN == [kind |-> "nan", val |-> 0]
Str == [kind |-> "str", val |-> 0]
Num(n) == [kind |-> "num", val |-> n]

isna(c) == c.kind = "nan"
notna(c) == c.kind # "nan"

\* The result of a dict lookup that finds nothing (Series.map gives NaN).
None == "None"

------------------------------------------------------------------------------
(* 1. The alias table and its reverse index *)

CANONICAL_TAG_MAP ==
    << [name |-> "Assets",
        tags |-> <<"Assets", "AssetsTotal", "AssetsNet", "TotalAssets", "AssetsCombined">>],
       [name |-> "LiabilitiesCurrent",
        tags |-> <<"LiabilitiesCurrent", "CurrentLiabilities", "LiabilitiesCurrentTotal",
                   "TotalCurrentLiabilities", "LiabilitiesCurrentAbstract",
                   "TotalLiabilitiesCurrent">>],
       [name |-> "AssetsCurrent",
        tags |-> <<"AssetsCurrent", "CurrentAssets", "AssetsCurrentTotal",
                   "TotalCurrentAssets", "AssetsCurrentAbstract", "TotalAssetsCurrent">>],
       [name |-> "RetainedEarnings",
        tags |-> <<"RetainedEarnings", "AccumulatedDeficit",
                   "RetainedEarningsAccumulatedDeficit",
                   "RetainedEarningsAccumulatedDeficitAbstract">>],
       [name |-> "EBIT",
        tags |-> <<"OperatingIncomeLoss", "EarningsBeforeInterestAndTaxes",
                   "IncomeLossFromContinuingOperationsBeforeInterestExpenseAndTaxExpense",
                   "IncomeLossFromContinuingOperationsBeforeIncomeTaxesMinorityInterestAndIncomeLossFromEquityInvestments",
                   "PretaxIncomeLossFromContinuingOperations">>],
       [name |-> "Liabilities",
        tags |-> <<"Liabilities", "LiabilitiesTotal",
                   "TotalLiabilitiesNoncurrentAndCurrent", "TotalLiabilities">>],
       [name |-> "Revenues",
        tags |-> <<"Revenues", "SalesRevenueNet", "RevenuesTotal", "TotalRevenue",
                   "NetSales", "RevenueFromContractWithCustomerExcludingAssessedTax",
                   "RevenueFromContractWithCustomerIncludingAssessedTax">>],
       [name |-> "StockholdersEquity",
        tags |-> <<"StockholdersEquity", "CommonStockholdersEquity", "PartnersCapital",
                   "TotalStockholdersEquity",
                   "StockholdersEquityIncludingPortionAttributableToNoncontrollingInterest",
                   "EquityAttributableToParent">>],
       [name |-> "NetIncomeLoss",
        tags |-> <<"NetIncomeLoss", "IncomeLossFromContinuingOperations", "ProfitLoss",
                   "NetIncomeLossAttributableToParent">>],
       [name |-> "CommonStockSharesOutstanding",
        tags |-> <<"CommonStockSharesOutstanding", "CommonStockSharesIssued",
                   "WeightedAverageNumberOfShareOutstandingBasic">>] >>

Z_SCORE_CORE_TAGS ==
    <<"Assets", "LiabilitiesCurrent", "AssetsCurrent", "RetainedEarnings",
      "EBIT", "Liabilities", "Revenues", "StockholdersEquity">>

Range(s) == {s[i] : i \in DOMAIN s}

\* list(CANONICAL_TAG_MAP.keys()), as a set
ALL_CANONICAL_TAGS == {CANONICAL_TAG_MAP[i].name : i \in DOMAIN CANONICAL_TAG_MAP}

\* every alias of every concept, as a set (used only through isin)
ALL_POTENTIAL_TAGS ==
    UNION {Range(CANONICAL_TAG_MAP[i].tags) : i \in DOMAIN CANONICAL_TAG_MAP}

EmptyDict == [x \in {} |-> None]

\* a plausible slip: an existing key keeps its value (dict.setdefault)
DictSet_setdefault(d, k, v) == d @@ (k :> v)

\* d[k] = v on a dict: a new key is added, an existing key is overwritten.
DictSet(d, k, v) == (k :> v) @@ d

\* d.get(k): the value under k, None when k is no key.
DictGet(d, k) == IF k \in DOMAIN d THEN d[k] ELSE None

RECURSIVE RenameTags_and_name(_, _, _)
\* a plausible slip: the concept's own name indexed along with its aliases
RenameTags_and_name(d, canonical_name, possible_tags) ==
    IF possible_tags = <<>> THEN DictSet(d, canonical_name, canonical_name)
    ELSE RenameTags_and_name(DictSet(d, Head(possible_tags), canonical_name),
                             canonical_name, Tail(possible_tags))

RECURSIVE RenameTags(_, _, _)
\* the inner loop: for tag in possible_tags: tag_rename_map[tag] = canonical_name
RenameTags(d, canonical_name, possible_tags) ==
    IF possible_tags = <<>> THEN d
    ELSE RenameTags(DictSet(d, Head(possible_tags), canonical_name),
                    canonical_name, Tail(possible_tags))

RECURSIVE RenameAll(_, _)
\* the outer loop, in the table's iteration order
RenameAll(d, table) ==
    IF table = <<>> THEN d
    ELSE RenameAll(RenameTags(d, Head(table).name, Head(table).tags), Tail(table))

\* a plausible slip: tag_rename_map[tag] = tag
get_tag_rename_map_identity(table) ==
    [t \in UNION {Range(table[i].tags) : i \in DOMAIN table} |-> t]

get_tag_rename_map(table) == RenameAll(EmptyDict, table)

------------------------------------------------------------------------------
(* Bounds and inputs of the canonicalizer *)

\* longest alias list of a small alias table
MaxAliases == 2

SmallNames == <<"Assets", "Liabilities">>
SmallLabels == {"Assets", "TotalAssets", "Liabilities"}

RECURSIVE SeqsUpTo(_, _)
\* all sequences over S of length 0..n
SeqsUpTo(S, n) ==
    IF n = 0 THEN {<<>>}
    ELSE LET shorter == SeqsUpTo(S, n - 1)
         IN  shorter \cup {Append(s, x) : s \in {t \in shorter : Len(t) = n - 1}, x \in S}

\* small alias tables, a label possibly listed twice or under both concepts
SmallTables ==
    { << [name |-> SmallNames[1], tags |-> a], [name |-> SmallNames[2], tags |-> b] >> :
        a \in SeqsUpTo(SmallLabels, MaxAliases), b \in SeqsUpTo(SmallLabels, MaxAliases) }

AliasTables == {CANONICAL_TAG_MAP} \cup SmallTables

\* labels that are aliases of nothing in the shipped table
UnmappedLabels == {"EBIT", "Goodwill", "AssetsNoncurrent", "assets", "LiabilitiesAndStockholdersEquity"}

ProbeLabels == ALL_POTENTIAL_TAGS \cup ALL_CANONICAL_TAGS \cup UnmappedLabels \cup SmallLabels

------------------------------------------------------------------------------
(* Canonicalizer: state machine *)

CanonInit ==
    /\ canonical_map \in AliasTables
    /\ tag_rename_map = EmptyDict
    /\ lookup = [label |-> None, result |-> None]
    /\ pcCanon = "start"

\* tag_rename_map = get_tag_rename_map(CANONICAL_TAG_MAP)
BuildIndex ==
    /\ pcCanon = "start"
    /\ tag_rename_map' = get_tag_rename_map(canonical_map)
    /\ pcCanon' = "built"
    /\ UNCHANGED <<canonical_map, lookup>>
    /\ UNCHANGED canonOthers

RECURSIVE Reversed(_)
Reversed(s) == IF s = <<>> THEN <<>> ELSE Append(Reversed(Tail(s)), Head(s))

\* a plausible slip: the second build walks the table in another order (as
\* the iteration of an unordered mapping may)
RebuildIndex_reordered ==
    /\ pcCanon = "built"
    /\ tag_rename_map' = get_tag_rename_map(Reversed(canonical_map))
    /\ pcCanon' = "rebuilt"
    /\ UNCHANGED <<canonical_map, lookup>>
    /\ UNCHANGED canonOthers

\* the next caller builds the index again from the same table (every call of
\* load_and_merge_data does)
RebuildIndex ==
    /\ pcCanon = "built"
    /\ tag_rename_map' = get_tag_rename_map(canonical_map)
    /\ pcCanon' = "rebuilt"
    /\ UNCHANGED <<canonical_map, lookup>>
    /\ UNCHANGED canonOthers

\* one lookup of a raw label in the built index
Canonicalize(label) ==
    /\ pcCanon \in {"built", "rebuilt"}
    /\ lookup' = [label |-> label, result |-> DictGet(tag_rename_map, label)]
    /\ UNCHANGED <<canonical_map, tag_rename_map, pcCanon>>
    /\ UNCHANGED canonOthers

CanonNext ==
    \/ BuildIndex
    \/ RebuildIndex
    \/ \E label \in ProbeLabels : Canonicalize(label)

------------------------------------------------------------------------------
(* Claims about the reverse index *)

\* the concepts of a table that list label among their aliases
ListedUnder(table, label) ==
    {table[i].name : i \in {j \in DOMAIN table : label \in Range(table[j].tags)}}

Built == pcCanon \in {"built", "rebuilt"}

ShippedBuilt == Built /\ canonical_map = CANONICAL_TAG_MAP

\* C3: in the index built from the shipped alias table, every alias label
\* listed under concept C looks up to exactly C, and every label listed under
\* no concept is absent from the index.
C3_ShippedLookup ==
    ShippedBuilt =>
        /\ \A i \in DOMAIN CANONICAL_TAG_MAP :
              \A j \in DOMAIN CANONICAL_TAG_MAP[i].tags :
                 DictGet(tag_rename_map, CANONICAL_TAG_MAP[i].tags[j])
                    = CANONICAL_TAG_MAP[i].name
        /\ \A label \in ProbeLabels :
              ListedUnder(CANONICAL_TAG_MAP, label) = {} => label \notin DOMAIN tag_rename_map
        /\ lookup.label # None =>
              IF ListedUnder(CANONICAL_TAG_MAP, lookup.label) = {}
              THEN lookup.result = None
              ELSE ListedUnder(CANONICAL_TAG_MAP, lookup.label) = {lookup.result}

\* C3 witness: an alias spelled unlike its concept has been looked up in the
\* shipped index and gave the concept.
C3_Witness ==
    /\ ShippedBuilt
    /\ lookup = [label |-> "OperatingIncomeLoss", result |-> "EBIT"]

\* the positions of a table whose alias list holds label
ListingsOf(table, label) == {j \in DOMAIN table : label \in Range(table[j].tags)}

\* C21: for any alias table, a label listed under two different concepts maps
\* to the one that comes later in the table's order, a label listed under one
\* concept maps to that concept, and the build ends without an error.
C21_LastListingWins ==
    /\ pcCanon \in {"start", "built", "rebuilt"}
    /\ Built =>
          /\ \A label \in ProbeLabels :
                LET at == ListingsOf(canonical_map, label)
                IN  at # {} =>
                      /\ label \in DOMAIN tag_rename_map
                      /\ tag_rename_map[label]
                            = canonical_map[CHOOSE i \in at : \A j \in at : i >= j].name
          /\ (lookup.label # None /\ ListingsOf(canonical_map, lookup.label) # {}) =>
                LET at == ListingsOf(canonical_map, lookup.label)
                IN  lookup.result = canonical_map[CHOOSE i \in at : \A j \in at : i >= j].name

\* C21 witness: "Assets" is listed under Assets and under Liabilities, which
\* comes second, and its lookup gave Liabilities, while "TotalAssets" is
\* listed under Assets only and maps to it.
C21_Witness ==
    /\ pcCanon = "built"
    /\ Len(canonical_map) = 2
    /\ canonical_map[1].tags = <<"Assets", "TotalAssets">>
    /\ canonical_map[2].tags = <<"Liabilities", "Assets">>
    /\ lookup = [label |-> "Assets", result |-> "Liabilities"]
    /\ tag_rename_map["TotalAssets"] = "Assets"

------------------------------------------------------------------------------
(* 2. load_and_merge_data *)

\* pd.DataFrame(): no rows, no columns
EmptyFrame == [rows |-> <<>>, columns |-> {}]

empty(frame) == frame.rows = <<>>

\* tag_rename_map = get_tag_rename_map(CANONICAL_TAG_MAP)
ShippedRenameMap == get_tag_rename_map(CANONICAL_TAG_MAP)

\* the canonical concept of a raw label (Series.map(tag_rename_map))
Canonical(tag) == DictGet(ShippedRenameMap, tag)

\* a plausible slip: the annual filter left out
AnnualOnly_unfiltered(sub_rows) == sub_rows

\* df_sub[df_sub['fp'] == 'FY']
AnnualOnly(sub_rows) == SelectSeq(sub_rows, LAMBDA r : r.fp = "FY")

\* a plausible slip: the context filter left out
ContextFree_unfiltered(num_rows) == num_rows

\* df_num[df_num['dim'].isna()]
ContextFree(num_rows) == SelectSeq(num_rows, LAMBDA r : isna(r.dim))

\* df_num_filtered[df_num_filtered['tag'].isin(ALL_POTENTIAL_TAGS)]
Mappable(num_rows) == SelectSeq(num_rows, LAMBDA r : r.tag \in ALL_POTENTIAL_TAGS)

\* df_num_filtered['tag'] = df_num_filtered['tag'].map(tag_rename_map)
Renamed(num_rows) ==
    [i \in DOMAIN num_rows |-> [num_rows[i] EXCEPT !.tag = Canonical(num_rows[i].tag)]]

\* a plausible slip: aggfunc='last'
GroupLast(rows, adsh, tag) ==
    LET hits == {i \in DOMAIN rows :
                    rows[i].adsh = adsh /\ rows[i].tag = tag /\ notna(rows[i].value)}
    IN  IF hits = {} THEN NaN
        ELSE rows[CHOOSE i \in hits : \A j \in hits : i >= j].value

\* a plausible slip: the value of the group's first row, empty or not
GroupFirst_positional(rows, adsh, tag) ==
    LET hits == {i \in DOMAIN rows : rows[i].adsh = adsh /\ rows[i].tag = tag}
    IN  IF hits = {} THEN NaN
        ELSE rows[CHOOSE i \in hits : \A j \in hits : i <= j].value

\* GroupBy.first(): the first non-null value of the group in row order, NaN when
\* the group holds none (pandas' first skips missing values).
GroupFirst(rows, adsh, tag) ==
    LET hits == {i \in DOMAIN rows :
                    rows[i].adsh = adsh /\ rows[i].tag = tag /\ notna(rows[i].value)}
    IN  IF hits = {} THEN NaN
        ELSE rows[CHOOSE i \in hits : \A j \in hits : i <= j].value

\* pivot_table(index='adsh', columns='tag', values='value', aggfunc='first'):
\* groups without any value are dropped, so a filing is in the index only if one
\* of its groups holds a value,
PivotIndex(rows) ==
    {rows[i].adsh : i \in {j \in DOMAIN rows : notna(rows[j].value)}}

\* and a concept is a column only if one of its groups holds a value.
PivotColumns(rows) ==
    {rows[i].tag : i \in {j \in DOMAIN rows : notna(rows[j].value)}}

\* one row of the merged frame: the metadata row and the wide row of its adsh;
\* cells of concepts that are no column of the frame read NaN
MergedRow(sub_row, rows) ==
    [adsh |-> sub_row.adsh, cik |-> sub_row.cik, name |-> sub_row.name,
     period |-> sub_row.period, fy |-> sub_row.fy, fp |-> sub_row.fp,
     cells |-> [c \in ALL_CANONICAL_TAGS |->
                  IF c \in PivotColumns(rows) THEN GroupFirst(rows, sub_row.adsh, c)
                  ELSE NaN]]

\* pd.merge(df_sub, df_num_wide, on='adsh', how='inner'): left order, one output
\* row per metadata row whose adsh is in the wide table
InnerJoin(sub_rows, rows) ==
    LET kept == SelectSeq(sub_rows, LAMBDA r : r.adsh \in PivotIndex(rows))
    IN  [i \in DOMAIN kept |-> MergedRow(kept[i], rows)]

load_and_merge_data(exists, sub_rows, num_rows) ==
    IF ~exists THEN EmptyFrame
    ELSE LET df_sub == AnnualOnly(sub_rows)
             df_num_filtered == Mappable(ContextFree(num_rows))
         IN  IF df_sub = <<>> THEN EmptyFrame
             ELSE IF df_num_filtered = <<>> THEN EmptyFrame
             ELSE [rows |-> InnerJoin(df_sub, Renamed(df_num_filtered)),
                   columns |-> PivotColumns(Renamed(df_num_filtered))]

\* the record the assembler gives for an annual filing whose only fact is a
\* context-free fact labelled label
AssembledFrom(label) ==
    load_and_merge_data(TRUE,
        << [adsh |-> "a1", cik |-> <<"cik", "a1">>, name |-> <<"name", "a1">>,
            period |-> Num(20231231), fy |-> Num(2023), fp |-> "FY"] >>,
        << [adsh |-> "a1", tag |-> label, dim |-> NaN, value |-> Num(10)] >>)

\* C28 as stated: on the shipped table each of the ten concept names, used as
\* a raw label, maps to itself, so looking up the result of a lookup gives the
\* same result, and a fact labelled with a concept name is kept under that
\* concept.
C28_NamesMapToThemselves ==
    ShippedBuilt =>
        /\ \A c \in ALL_CANONICAL_TAGS : DictGet(tag_rename_map, c) = c
        /\ \A label \in DOMAIN tag_rename_map :
              DictGet(tag_rename_map, tag_rename_map[label]) = tag_rename_map[label]
        /\ lookup.label \in ALL_CANONICAL_TAGS => lookup.result = lookup.label
        /\ \A c \in ALL_CANONICAL_TAGS :
              /\ Len(AssembledFrom(c).rows) = 1
              /\ AssembledFrom(c).rows[1].cells[c] = Num(10)

\* C28 amended: that holds for the nine concepts other than EBIT; "EBIT" is no
\* alias of any concept, so it is unmapped, looking up the result of a lookup
\* of an alias of EBIT finds nothing, and a fact labelled "EBIT" is dropped by
\* the assembler.
C28_NamesButEBITMapToThemselves ==
    ShippedBuilt =>
        /\ \A c \in ALL_CANONICAL_TAGS :
              DictGet(tag_rename_map, c) = IF c = "EBIT" THEN None ELSE c
        /\ \A label \in DOMAIN tag_rename_map :
              DictGet(tag_rename_map, tag_rename_map[label])
                 = IF tag_rename_map[label] = "EBIT" THEN None ELSE tag_rename_map[label]
        /\ lookup.label \in ALL_CANONICAL_TAGS =>
              lookup.result = IF lookup.label = "EBIT" THEN None ELSE lookup.label
        /\ \A c \in ALL_CANONICAL_TAGS \ {"EBIT"} :
              /\ Len(AssembledFrom(c).rows) = 1
              /\ AssembledFrom(c).rows[1].cells[c] = Num(10)
        /\ AssembledFrom("EBIT") = EmptyFrame

\* C28 witness: "EBIT" has been looked up in the shipped index and is unmapped.
C28_Witness ==
    /\ ShippedBuilt
    /\ lookup = [label |-> "EBIT", result |-> None]
    /\ DictGet(tag_rename_map, "OperatingIncomeLoss") = "EBIT"

------------------------------------------------------------------------------
(* Bounds and inputs of the assembler *)

\* rows of a batch's fact table
MaxNumRows == 2

AsmFilings == {"a1", "a2"}
\* two aliases of Assets, one of Liabilities, one label that is no alias
AsmTags == {"Assets", "TotalAssets", "Liabilities", "Goodwill"}
AsmDims == {NaN, Str}
AsmValues == {Num(10), Num(20), NaN, Str}

\* a row of sub.txt (SUB_COLUMNS_REQUIRED)
MetaRow(adsh, fp, period, fy) ==
    [adsh |-> adsh, cik |-> <<"cik", adsh>>, name |-> <<"name", adsh>>,
     period |-> period, fy |-> fy, fp |-> fp]

Meta(adsh, fp) == MetaRow(adsh, fp, Num(20231231), Num(2023))

\* metadata tables: annual and quarterly filings, one filing listed twice
SubTables ==
    { <<>>,
      <<Meta("a1", "FY")>>,
      <<Meta("a1", "Q1")>>,
      <<Meta("a1", "FY"), Meta("a2", "FY")>>,
      <<Meta("a2", "FY"), Meta("a1", "FY")>>,
      <<Meta("a1", "FY"), Meta("a2", "Q1")>>,
      <<Meta("a1", "Q1"), Meta("a2", "FY")>>,
      <<Meta("a1", "FY"), Meta("a1", "FY")>> }

\* fact rows: every kind of row for a1, numeric and empty values for a2
NumRows ==
    [adsh : {"a1"}, tag : AsmTags, dim : AsmDims, value : AsmValues]
    \cup [adsh : {"a2"}, tag : AsmTags, dim : AsmDims, value : {Num(20), NaN}]

------------------------------------------------------------------------------
(* Assembler: state machine *)

AsmInit ==
    /\ \/ /\ files_exist = TRUE
          /\ sub \in SubTables
          /\ num \in SeqsUpTo(NumRows, MaxNumRows)
       \/ /\ files_exist = FALSE
          /\ sub = <<>>
          /\ num = <<>>
    /\ df_merged = EmptyFrame
    /\ pcAsm = "start"

\* df_combined = load_and_merge_data(q_dir, cik_to_ticker_map)
LoadAndMergeData ==
    /\ pcAsm = "start"
    /\ df_merged' = load_and_merge_data(files_exist, sub, num)
    /\ pcAsm' = "returned"
    /\ UNCHANGED <<files_exist, sub, num>>
    /\ UNCHANGED asmOthers

AsmNext == LoadAndMergeData

------------------------------------------------------------------------------
(* Claims about load_and_merge_data *)

\* the alias labels the shipped table lists under concept c
AliasesOf(c) ==
    UNION {Range(CANONICAL_TAG_MAP[i].tags) :
             i \in {j \in DOMAIN CANONICAL_TAG_MAP : CANONICAL_TAG_MAP[j].name = c}}

\* the input rows that are context-free facts of filing f for concept c
FactsOf(f, c) ==
    {i \in DOMAIN num : num[i].adsh = f /\ isna(num[i].dim) /\ num[i].tag \in AliasesOf(c)}

\* those of them that carry a value
ValuedFactsOf(f, c) == {i \in FactsOf(f, c) : notna(num[i].value)}

Least(S) == CHOOSE i \in S : \A j \in S : i <= j

Returned == pcAsm = "returned"

MergedFilings == {df_merged.rows[i].adsh : i \in DOMAIN df_merged.rows}

\* C2 as stated: with two or more context-free facts of one filing for one
\* concept, the record holds the value of the first of them in row order,
\* whatever the values are.
C2_FirstFactWins ==
    Returned =>
        \A i \in DOMAIN df_merged.rows : \A c \in ALL_CANONICAL_TAGS :
            LET r == df_merged.rows[i]
            IN  Cardinality(FactsOf(r.adsh, c)) >= 2 =>
                    r.cells[c] = num[Least(FactsOf(r.adsh, c))].value

\* C2 amended: the record holds the value of the first of these facts that
\* carries a value (a number or a string), and is null when none does; it is
\* never a sum, an average or a later valued fact.
C2_FirstValuedFactWins ==
    Returned =>
        \A i \in DOMAIN df_merged.rows : \A c \in ALL_CANONICAL_TAGS :
            LET r == df_merged.rows[i]
            IN  Cardinality(FactsOf(r.adsh, c)) >= 2 =>
                    r.cells[c] = IF ValuedFactsOf(r.adsh, c) = {} THEN NaN
                                 ELSE num[Least(ValuedFactsOf(r.adsh, c))].value

\* C2 witness: a returned record built from two facts of one concept under
\* different aliases with different numbers, holding the first.
C2_Witness ==
    /\ Returned
    /\ Len(num) = 2
    /\ num[1].tag = "TotalAssets" /\ num[2].tag = "Assets"
    /\ num[1].value = Num(20) /\ num[2].value = Num(10)
    /\ \E i \in DOMAIN df_merged.rows :
          /\ FactsOf(df_merged.rows[i].adsh, "Assets") = {1, 2}
          /\ df_merged.rows[i].cells["Assets"] = Num(20)

\* C10 as stated: a record is returned for filing f iff f has an annual
\* metadata row and a context-free fact under an alias label.
C10_RecordIffAnnualAndFact ==
    Returned =>
        \A f \in AsmFilings :
            f \in MergedFilings <=>
                /\ \E i \in DOMAIN sub : sub[i].adsh = f /\ sub[i].fp = "FY"
                /\ \E c \in ALL_CANONICAL_TAGS : FactsOf(f, c) # {}

\* C10 amended: a record is returned for filing f iff f has an annual metadata
\* row and a context-free fact under an alias label whose value is not empty.
C10_RecordIffAnnualAndValuedFact ==
    Returned =>
        \A f \in AsmFilings :
            f \in MergedFilings <=>
                /\ \E i \in DOMAIN sub : sub[i].adsh = f /\ sub[i].fp = "FY"
                /\ \E c \in ALL_CANONICAL_TAGS : ValuedFactsOf(f, c) # {}

\* C10 witness: a1 is annual with a valued canonical fact and is returned; a2 is
\* annual too but its only fact is under a label that is no alias, and is not.
C10_Witness ==
    /\ Returned
    /\ sub = <<Meta("a1", "FY"), Meta("a2", "FY")>>
    /\ Len(num) = 2
    /\ num[1] = [adsh |-> "a1", tag |-> "TotalAssets", dim |-> NaN, value |-> Num(10)]
    /\ num[2] = [adsh |-> "a2", tag |-> "Goodwill", dim |-> NaN, value |-> Num(20)]
    /\ MergedFilings = {"a1"}

\* C11: in every returned record a concept's field is non-null only if the
\* filing has a context-free fact under an alias of that concept, and then it
\* is the value of such a fact; a concept without such a fact is null (not
\* zero), whatever facts with a dimension key the filing has for it.
C11_OnlyContextFreeAliasFacts ==
    Returned =>
        \A i \in DOMAIN df_merged.rows : \A c \in ALL_CANONICAL_TAGS :
            LET r == df_merged.rows[i]
            IN  /\ notna(r.cells[c]) =>
                       \E k \in FactsOf(r.adsh, c) : num[k].value = r.cells[c]
                /\ FactsOf(r.adsh, c) = {} => r.cells[c] = NaN

\* C11 witness: a1's only Assets fact carries a dimension key and a number, its
\* Liabilities fact is context-free; the record has Liabilities and a null
\* Assets.
C11_Witness ==
    /\ Returned
    /\ Len(num) = 2
    /\ num[1] = [adsh |-> "a1", tag |-> "Assets", dim |-> Str, value |-> Num(10)]
    /\ num[2] = [adsh |-> "a1", tag |-> "Liabilities", dim |-> NaN, value |-> Num(20)]
    /\ \E i \in DOMAIN df_merged.rows :
          /\ df_merged.rows[i].adsh = "a1"
          /\ df_merged.rows[i].cells["Assets"] = NaN
          /\ df_merged.rows[i].cells["Liabilities"] = Num(20)

\* the first fact of filing f for concept c is empty and a later one has a value
EmptyThenValued(f, c) ==
    /\ ValuedFactsOf(f, c) # {}
    /\ isna(num[Least(FactsOf(f, c))].value)

\* C25 as stated: when the first fact in row order of a (filing, concept) pair
\* has an empty value and a later context-free fact of the pair has a value,
\* the later fact is dropped and the record's field is null.
C25_EmptyFirstFactWins ==
    Returned =>
        \A i \in DOMAIN df_merged.rows : \A c \in ALL_CANONICAL_TAGS :
            EmptyThenValued(df_merged.rows[i].adsh, c) => isna(df_merged.rows[i].cells[c])

\* C25 amended: in that case the empty first fact is passed over: the record's
\* field is not null, it is the value of the earliest later fact of the pair
\* that has one.
C25_EmptyFirstFactSkipped ==
    Returned =>
        \A i \in DOMAIN df_merged.rows : \A c \in ALL_CANONICAL_TAGS :
            LET f == df_merged.rows[i].adsh
            IN  EmptyThenValued(f, c) =>
                  /\ notna(df_merged.rows[i].cells[c])
                  /\ \E k \in ValuedFactsOf(f, c) :
                        /\ k > Least(FactsOf(f, c))
                        /\ \A j \in ValuedFactsOf(f, c) : k <= j
                        /\ df_merged.rows[i].cells[c] = num[k].value

\* C25 witness: a1's first Assets fact is empty, its second, under another
\* alias, is 20, and the record has Assets = 20.
C25_Witness ==
    /\ Returned
    /\ Len(num) = 2
    /\ num[1] = [adsh |-> "a1", tag |-> "Assets", dim |-> NaN, value |-> NaN]
    /\ num[2] = [adsh |-> "a1", tag |-> "TotalAssets", dim |-> NaN, value |-> Num(20)]
    /\ \E i \in DOMAIN df_merged.rows :
          df_merged.rows[i].adsh = "a1" /\ df_merged.rows[i].cells["Assets"] = Num(20)

\* the context-free facts of filing f for concept c whose value is a number
NumericFactsOf(f, c) == {i \in FactsOf(f, c) : num[i].value.kind = "num"}

------------------------------------------------------------------------------
(* 3. calculate_financial_ratios and get_prediction *)

\* float division by zero gives inf in numpy, not an exception
Inf == [kind |-> "inf", val |-> 0]

IsNum(c) == c.kind = "num"

required_tags_for_z_score ==
    {"Assets", "LiabilitiesCurrent", "AssetsCurrent", "RetainedEarnings",
     "EBIT", "Liabilities", "StockholdersEquity"}

cols_to_replace_zero == {"Assets", "Liabilities", "StockholdersEquity"}

\* the columns the body reads besides the required ones: df_filtered['Revenues'],
\* df_filtered['NetIncomeLoss'], df_filtered['CommonStockSharesOutstanding']
OptionalColumnsRead == {"Revenues", "NetIncomeLoss", "CommonStockSharesOutstanding"}

\* n/d rounded to the nearest integer, ties to the even one (numpy's round);
\* d # 0
RoundDiv(n, d) ==
    LET nn == IF d < 0 THEN -n ELSE n
        dd == IF d < 0 THEN -d ELSE d
        q == nn \div dd
        r == nn % dd
    IN  IF 2 * r > dd THEN q + 1
        ELSE IF 2 * r < dd THEN q
        ELSE IF q % 2 = 0 THEN q ELSE q + 1

\* the cell n/d in units of 1/scale; NaN propagates
Ratio(n, d, scale) ==
    IF ~IsNum(n) \/ ~IsNum(d) THEN NaN
    ELSE IF d.val = 0 THEN Inf
    ELSE Num(RoundDiv(scale * n.val, d.val))

\* a - b on cells
Minus(a, b) == IF ~IsNum(a) \/ ~IsNum(b) THEN NaN ELSE Num(a.val - b.val)

\* df.dropna(subset=required_tags_for_z_score, how='any'): the positions kept
HasRequired(row) == \A c \in required_tags_for_z_score : notna(row.cells[c])

\* pd.to_numeric(errors='coerce') on every canonical column of the frame
ToNumeric(cells) == [c \in DOMAIN cells |-> IF IsNum(cells[c]) THEN cells[c] ELSE NaN]

\* df_filtered[cols_to_replace_zero].replace(0, np.nan)
ReplaceZero(cells) ==
    [c \in DOMAIN cells |->
        IF c \in cols_to_replace_zero /\ cells[c] = Num(0) THEN NaN ELSE cells[c]]

\* X1..X4 in units of 10^-4, after .round(4)
X1(v) == Ratio(Minus(v["AssetsCurrent"], v["LiabilitiesCurrent"]), v["Assets"], 10000)
X2(v) == Ratio(v["RetainedEarnings"], v["Assets"], 10000)
X3(v) == Ratio(v["EBIT"], v["Assets"], 10000)
X4(v) == Ratio(v["StockholdersEquity"], v["Liabilities"], 10000)

\* X5 stays NaN unless Revenues and Assets are both there
has_revenues(v) == notna(v["Revenues"]) /\ notna(v["Assets"])
X5(v) == IF has_revenues(v) THEN Ratio(v["Revenues"], v["Assets"], 10000) ELSE NaN

\* a plausible slip: the ratios rounded first, the score computed from the
\* rounded ratios (in units of 10^-6) and rounded to 3 decimals
ZScore_of_rounded(v) ==
    IF \E c \in required_tags_for_z_score : ~IsNum(v[c]) THEN NaN
    ELSE Num(RoundDiv(656 * X1(v).val + 326 * X2(v).val + 672 * X3(v).val
                        + 105 * X4(v).val, 1000))

\* 6.56*X1 + 3.26*X2 + 6.72*X3 + 1.05*X4 on the unrounded ratios, then
\* .round(3): in units of 10^-3 the sum is
\*   10 * ((656*(AC-LC) + 326*RE + 672*EBIT) * L + 105*SE*A) / (A*L)
ZScore(v) ==
    IF \E c \in required_tags_for_z_score : ~IsNum(v[c]) THEN NaN
    ELSE LET A == v["Assets"].val
             L == v["Liabilities"].val
             P == 656 * (v["AssetsCurrent"].val - v["LiabilitiesCurrent"].val)
                    + 326 * v["RetainedEarnings"].val + 672 * v["EBIT"].val
         IN  Num(RoundDiv(10 * (P * L + 105 * v["StockholdersEquity"].val * A), A * L))

has_roe_data(v) ==
    /\ notna(v["NetIncomeLoss"])
    /\ notna(v["StockholdersEquity"])
    /\ v["StockholdersEquity"] # Num(0)

\* a plausible slip: the zero check on the share count left out
has_eps_data_unchecked(v) ==
    notna(v["NetIncomeLoss"]) /\ notna(v["CommonStockSharesOutstanding"])

has_eps_data(v) ==
    /\ notna(v["NetIncomeLoss"])
    /\ notna(v["CommonStockSharesOutstanding"])
    /\ v["CommonStockSharesOutstanding"] # Num(0)

\* roe in units of 10^-4, eps in units of 10^-2
Roe(v) == IF has_roe_data(v)
          THEN Ratio(v["NetIncomeLoss"], v["StockholdersEquity"], 10000) ELSE NaN
Eps(v) == IF has_eps_data(v)
          THEN Ratio(v["NetIncomeLoss"], v["CommonStockSharesOutstanding"], 100) ELSE NaN

\* a plausible slip: >= for >
get_prediction_inclusive(score) ==
    IF isna(score) THEN "Incomplete/Invalid"
    ELSE IF score.val >= 2600 THEN "Safe"
    ELSE IF score.val >= 1100 THEN "Grey"
    ELSE "Distress"

\* the score is in units of 10^-3
get_prediction(score) ==
    IF isna(score) THEN "Incomplete/Invalid"
    ELSE IF score.val > 2600 THEN "Safe"
    ELSE IF score.val > 1100 THEN "Grey"
    ELSE "Distress"

\* a plausible slip: the clean-up of NaN scores left out
CleanScore_skipped(score, label) == score

\* df_filtered.loc[z_score.isna() & (prediction == 'Incomplete/Invalid'), 'z_score'] = 0.0
CleanScore(score, label) ==
    IF isna(score) /\ label = "Incomplete/Invalid" THEN Num(0) ELSE score

\* the unrounded score of v is above t thousandths
AboveUnrounded(v, t) ==
    LET A == v["Assets"].val
        L == v["Liabilities"].val
        P == 656 * (v["AssetsCurrent"].val - v["LiabilitiesCurrent"].val)
               + 326 * v["RetainedEarnings"].val + 672 * v["EBIT"].val
        sgn == IF A * L < 0 THEN -1 ELSE 1
    IN  sgn * 10 * (P * L + 105 * v["StockholdersEquity"].val * A) > t * sgn * A * L

\* a plausible slip: the label taken from the score before .round(3)
ResultRow_label_first(row, idx) ==
    LET v == ReplaceZero(ToNumeric(row.cells))
        score == ZScore(v)
        label == IF isna(score) THEN "Incomplete/Invalid"
                 ELSE IF AboveUnrounded(v, 2600) THEN "Safe"
                 ELSE IF AboveUnrounded(v, 1100) THEN "Grey"
                 ELSE "Distress"
    IN  [idx |-> idx, adsh |-> row.adsh, cells |-> v,
         X1 |-> X1(v), X2 |-> X2(v), X3 |-> X3(v), X4 |-> X4(v), X5 |-> X5(v),
         z_score |-> CleanScore(score, label),
         prediction |-> label,
         roe |-> Roe(v), eps |-> Eps(v)]

\* one row of the result; idx is the row's index label, kept from the input
ResultRow(row, idx) ==
    LET v == ReplaceZero(ToNumeric(row.cells))
        score == ZScore(v)
    IN  [idx |-> idx, adsh |-> row.adsh, cells |-> v,
         X1 |-> X1(v), X2 |-> X2(v), X3 |-> X3(v), X4 |-> X4(v), X5 |-> X5(v),
         z_score |-> CleanScore(score, get_prediction(score)),
         prediction |-> get_prediction(score),
         roe |-> Roe(v), eps |-> Eps(v)]

\* the positions of the rows dropna keeps, in order
RECURSIVE KeptFrom(_, _)
KeptFrom(rows, i) ==
    IF i > Len(rows) THEN <<>>
    ELSE IF HasRequired(rows[i]) THEN <<i>> \o KeptFrom(rows, i + 1)
    ELSE KeptFrom(rows, i + 1)

\* The call returns rows or raises KeyError: dropna raises when a required
\* concept is no column of the frame; past the empty check, the body reads
\* the optional columns and raises when one is no column.
calculate_financial_ratios(frame) ==
    IF ~(required_tags_for_z_score \subseteq frame.columns)
    THEN [status |-> "KeyError", rows |-> <<>>]
    ELSE LET kept == KeptFrom(frame.rows, 1)
         IN  IF kept = <<>> THEN [status |-> "returned", rows |-> <<>>]
             ELSE IF ~(OptionalColumnsRead \subseteq frame.columns)
             THEN [status |-> "KeyError", rows |-> <<>>]
             ELSE [status |-> "returned",
                   rows |-> [k \in DOMAIN kept |-> ResultRow(frame.rows[kept[k]], kept[k])]]

------------------------------------------------------------------------------
(* Bounds and inputs of the ratio engine *)

\* rows of a frame
MaxRows == 2
\* scores handed to get_prediction: -MaxScore..MaxScore thousandths
MaxScore == 3000

Filing(adsh, A, LC, AC, RE, EBIT, L, REV, SE, NI, SH) ==
    [adsh |-> adsh,
     cells |-> [c \in ALL_CANONICAL_TAGS |->
        CASE c = "Assets" -> A
          [] c = "LiabilitiesCurrent" -> LC
          [] c = "AssetsCurrent" -> AC
          [] c = "RetainedEarnings" -> RE
          [] c = "EBIT" -> EBIT
          [] c = "Liabilities" -> L
          [] c = "Revenues" -> REV
          [] c = "StockholdersEquity" -> SE
          [] c = "NetIncomeLoss" -> NI
          [] c = "CommonStockSharesOutstanding" -> SH]]

\* the values of the filing under study: each concept missing, zero where a
\* zero matters, non-numeric where coercion matters, or the value of the
\* worked example
StudyValues ==
    [Assets |-> {NaN, Num(0), Num(1000)},
     LiabilitiesCurrent |-> {NaN, Num(200)},
     AssetsCurrent |-> {NaN, Num(400)},
     RetainedEarnings |-> {NaN, Num(150)},
     EBIT |-> {NaN, Str, Num(80)},
     Liabilities |-> {NaN, Num(0), Num(600)},
     Revenues |-> {NaN, Num(500)},
     StockholdersEquity |-> {NaN, Num(0), Num(400)},
     NetIncomeLoss |-> {NaN, Str, Num(50)},
     CommonStockSharesOutstanding |-> {NaN, Num(0), Num(100)}]

\* other filings of the frame: a complete one in the grey band, and one in
\* distress with negative earnings that reports no revenues and no shares
GreyFiling ==
    Filing("g1", Num(1000), Num(200), Num(300), Num(100), Num(50), Num(500),
           Num(800), Num(500), Num(40), Num(10))
DistressFiling ==
    Filing("d1", Num(1000), Num(300), Num(100), Num(-200), Num(-50), Num(800),
           NaN, Num(300), Num(-30), NaN)
OtherFilings == {GreyFiling, DistressFiling}

\* a filing whose unrounded score, 2.60018..., is just above the Safe threshold
\* and whose ratios are no multiples of 10^-4
BoundaryFiling ==
    Filing("b1", Num(1100), Num(100), Num(250), Num(150), Num(10), Num(700),
           Num(900), Num(800), Num(30), Num(7))

InsertAt(s, k, x) == SubSeq(s, 1, k - 1) \o <<x>> \o SubSeq(s, k, Len(s))

\* the columns of a frame assembled from these filings alone: pivot_table
\* keeps a concept as a column only if some filing has a value for it
ColumnsOf(rows) ==
    {c \in ALL_CANONICAL_TAGS : \E i \in DOMAIN rows : notna(rows[i].cells[c])}

FrameOf(rows) == [rows |-> rows, columns |-> ColumnsOf(rows)]

Scores == {Num(n) : n \in (-MaxScore)..MaxScore} \cup {NaN}

NoResult == [status |-> "none", rows |-> <<>>]

------------------------------------------------------------------------------
(* Ratio engine and classifier: state machine *)

RatioInit ==
    /\ df_results = NoResult
    /\ prediction = None
    /\ \/ /\ pcRatio = "start"
          \* a frame of 1..MaxRows filings: the filing under study, at
          \* any position among other filings
          /\ \E others \in SeqsUpTo(OtherFilings, MaxRows - 1) :
             \E k \in 1..(Len(others) + 1) :
             \E A \in StudyValues.Assets, LC \in StudyValues.LiabilitiesCurrent,
                AC \in StudyValues.AssetsCurrent, RE \in StudyValues.RetainedEarnings,
                EBIT \in StudyValues.EBIT, L \in StudyValues.Liabilities,
                REV \in StudyValues.Revenues, SE \in StudyValues.StockholdersEquity,
                NI \in StudyValues.NetIncomeLoss,
                SH \in StudyValues.CommonStockSharesOutstanding :
                df = FrameOf(InsertAt(others, k,
                        Filing("f1", A, LC, AC, RE, EBIT, L, REV, SE, NI, SH)))
          /\ z = NaN
       \/ /\ pcRatio = "start"
          \* the filing at the threshold, at any position among other filings
          /\ \E others \in SeqsUpTo(OtherFilings, MaxRows - 1) :
             \E k \in 1..(Len(others) + 1) :
                df = FrameOf(InsertAt(others, k, BoundaryFiling))
          /\ z = NaN
       \/ /\ pcRatio = "classify"
          /\ df = EmptyFrame
          /\ z \in Scores

\* df_results = calculate_financial_ratios(df_to_analyze)
CalculateFinancialRatios ==
    /\ pcRatio = "start"
    /\ df_results' = calculate_financial_ratios(df)
    /\ pcRatio' = IF df_results'.status = "returned" THEN "returned" ELSE "raised"
    /\ UNCHANGED <<df, z, prediction>>
    /\ UNCHANGED ratioOthers

\* get_prediction(z)
GetPrediction ==
    /\ pcRatio = "classify"
    /\ prediction' = get_prediction(z)
    /\ pcRatio' = "classified"
    /\ UNCHANGED <<df, df_results, z>>
    /\ UNCHANGED ratioOthers

RatioNext == CalculateFinancialRatios \/ GetPrediction

------------------------------------------------------------------------------
(* Claims about calculate_financial_ratios and get_prediction *)

\* the call has ended, by returning or by raising
Called == pcRatio \in {"returned", "raised"}
CallReturned == pcRatio = "returned"

\* the seven required concepts, as the claims name them
SevenRequired ==
    {"Assets", "LiabilitiesCurrent", "AssetsCurrent", "RetainedEarnings",
     "EBIT", "Liabilities", "StockholdersEquity"}

HasAllSeven(row) == \A c \in SevenRequired : notna(row.cells[c])
AllSevenNumeric(row) == \A c \in SevenRequired : IsNum(row.cells[c])

\* the positions of the input rows that are in the output
OutputIdx == {df_results.rows[k].idx : k \in DOMAIN df_results.rows}
\* the output rows of input row i
OutputOf(i) == {df_results.rows[k] : k \in {j \in DOMAIN df_results.rows : df_results.rows[j].idx = i}}

Abs(x) == IF x < 0 THEN -x ELSE x

\* q is n/d in units of 1/scale, to within half a unit
IsRounded(q, n, d, scale) == 2 * Abs(scale * n - q * d) <= Abs(d)

\* C1: after a call, a filing is in the output iff it has a value for each of
\* the seven required concepts, whether or not Revenues, NetIncomeLoss or
\* CommonStockSharesOutstanding is missing.
C1_RequiredFieldFilter ==
    Called => \A i \in DOMAIN df.rows : (i \in OutputIdx <=> HasAllSeven(df.rows[i]))

\* C1 on the calls that return: the filter itself keeps exactly the filings
\* with all seven.
C1_FilterWhenReturned ==
    CallReturned => \A i \in DOMAIN df.rows : (i \in OutputIdx <=> HasAllSeven(df.rows[i]))

\* C4: a filing that passes the required-field filter with Assets = 0 comes
\* out with X1, X2, X3 and X5 null, prediction "Incomplete/Invalid" and
\* z_score 0.0, and the call does not raise.
C4_ZeroAssets ==
    Called =>
        \A i \in DOMAIN df.rows :
            (HasAllSeven(df.rows[i]) /\ df.rows[i].cells["Assets"] = Num(0)) =>
                /\ CallReturned
                /\ \E r \in OutputOf(i) :
                      /\ isna(r.X1) /\ isna(r.X2) /\ isna(r.X3) /\ isna(r.X5)
                      /\ r.prediction = "Incomplete/Invalid"
                      /\ r.z_score = Num(0)

\* C4 on the calls that return.
C4_ZeroAssetsWhenReturned ==
    CallReturned =>
        \A i \in DOMAIN df.rows :
            (HasAllSeven(df.rows[i]) /\ df.rows[i].cells["Assets"] = Num(0)) =>
                \E r \in OutputOf(i) :
                    /\ isna(r.X1) /\ isna(r.X2) /\ isna(r.X3) /\ isna(r.X5)
                    /\ r.prediction = "Incomplete/Invalid"
                    /\ r.z_score = Num(0)

\* C5: get_prediction gives "Incomplete/Invalid" for a null score, "Safe"
\* above 2.6, "Grey" above 1.1 up to 2.6 and "Distress" up to 1.1; 2.6 itself
\* is "Grey" and 1.1 itself is "Distress".
C5_Bands ==
    pcRatio = "classified" =>
        /\ prediction \in {"Incomplete/Invalid", "Safe", "Grey", "Distress"}
        /\ prediction = "Incomplete/Invalid" <=> isna(z)
        /\ prediction = "Safe" <=> (IsNum(z) /\ z.val > 2600)
        /\ prediction = "Grey" <=> (IsNum(z) /\ 1100 < z.val /\ z.val <= 2600)
        /\ prediction = "Distress" <=> (IsNum(z) /\ z.val <= 1100)
        /\ z = Num(2600) => prediction = "Grey"
        /\ z = Num(1100) => prediction = "Distress"

\* C5 witness: the score 2.6 has been classified, as "Grey".
C5_Witness == pcRatio = "classified" /\ z = Num(2600) /\ prediction = "Grey"

IsWorkedExample(row) ==
    /\ row.cells["Assets"] = Num(1000)
    /\ row.cells["AssetsCurrent"] = Num(400)
    /\ row.cells["LiabilitiesCurrent"] = Num(200)
    /\ row.cells["RetainedEarnings"] = Num(150)
    /\ row.cells["EBIT"] = Num(80)
    /\ row.cells["Liabilities"] = Num(600)
    /\ row.cells["StockholdersEquity"] = Num(400)

WorkedOutput(r) ==
    /\ r.X1 = Num(2000) /\ r.X2 = Num(1500) /\ r.X3 = Num(800) /\ r.X4 = Num(6667)
    /\ r.z_score = Num(3039)
    /\ r.prediction = "Safe"

\* C6: the filing Assets=1000, AssetsCurrent=400, LiabilitiesCurrent=200,
\* RetainedEarnings=150, EBIT=80, Liabilities=600, StockholdersEquity=400 comes
\* out with X1=0.2000, X2=0.1500, X3=0.0800, X4=0.6667, z_score=3.039, "Safe".
C6_WorkedExample ==
    Called =>
        \A i \in DOMAIN df.rows :
            IsWorkedExample(df.rows[i]) => \E r \in OutputOf(i) : WorkedOutput(r)

\* C6 on the calls that return.
C6_WorkedExampleWhenReturned ==
    CallReturned =>
        \A i \in DOMAIN df.rows :
            IsWorkedExample(df.rows[i]) => \E r \in OutputOf(i) : WorkedOutput(r)

\* C7: in every output row z_score and prediction are non-null, and a row
\* labelled "Incomplete/Invalid" has z_score 0.0.
C7_ScoreAndLabelPopulated ==
    CallReturned =>
        \A k \in DOMAIN df_results.rows :
            LET r == df_results.rows[k]
            IN  /\ IsNum(r.z_score)
                /\ r.prediction \in {"Incomplete/Invalid", "Safe", "Grey", "Distress"}
                /\ r.prediction = "Incomplete/Invalid" => r.z_score = Num(0)

\* C7 witness: an output with a row labelled "Incomplete/Invalid" at 0.0 next to
\* a scored row.
C7_Witness ==
    /\ CallReturned
    /\ \E k \in DOMAIN df_results.rows :
          df_results.rows[k].prediction = "Incomplete/Invalid"
             /\ df_results.rows[k].z_score = Num(0)
    /\ \E k \in DOMAIN df_results.rows :
          df_results.rows[k].prediction = "Grey" /\ df_results.rows[k].z_score = Num(2368)

\* C8: in every output row roe is non-null exactly when NetIncomeLoss is a
\* number and StockholdersEquity is a non-zero number, and is then their
\* quotient to 4 decimals; eps is non-null exactly when NetIncomeLoss is a
\* number and CommonStockSharesOutstanding is a non-zero number, and is then
\* their quotient to 2 decimals.
C8_ValuationRatios ==
    CallReturned =>
        \A k \in DOMAIN df_results.rows :
            LET r == df_results.rows[k]
                in == df.rows[r.idx].cells
                NI == in["NetIncomeLoss"]
                SE == in["StockholdersEquity"]
                SH == in["CommonStockSharesOutstanding"]
            IN  /\ notna(r.roe) <=> (IsNum(NI) /\ IsNum(SE) /\ SE.val # 0)
                /\ notna(r.roe) => IsNum(r.roe) /\ IsRounded(r.roe.val, NI.val, SE.val, 10000)
                /\ notna(r.eps) <=> (IsNum(NI) /\ IsNum(SH) /\ SH.val # 0)
                /\ notna(r.eps) => IsNum(r.eps) /\ IsRounded(r.eps.val, NI.val, SH.val, 100)

\* C8 witness: an output row of a filing with NetIncomeLoss 50, zero equity and
\* 100 shares: roe null, eps 0.50.
C8_Witness ==
    /\ CallReturned
    /\ \E k \in DOMAIN df_results.rows :
          LET r == df_results.rows[k]
              in == df.rows[r.idx].cells
          IN  /\ in["NetIncomeLoss"] = Num(50)
              /\ in["StockholdersEquity"] = Num(0)
              /\ in["CommonStockSharesOutstanding"] = Num(100)
              /\ isna(r.roe)
              /\ r.eps = Num(50)

\* C9: for a filing with all seven required fields numeric, X4 is null exactly
\* when Liabilities is 0; with StockholdersEquity = 0, Liabilities # 0 and
\* Assets # 0 it has X4 = 0, a computed score and a label other than
\* "Incomplete/Invalid" (stated on the calls that return).
C9_ZeroNullsOnlyDenominators ==
    CallReturned =>
        \A k \in DOMAIN df_results.rows :
            LET r == df_results.rows[k]
                in == df.rows[r.idx].cells
            IN  AllSevenNumeric(df.rows[r.idx]) =>
                    /\ isna(r.X4) <=> in["Liabilities"] = Num(0)
                    /\ (in["StockholdersEquity"] = Num(0) /\ in["Liabilities"] # Num(0)
                            /\ in["Assets"] # Num(0)) =>
                          (r.X4 = Num(0) /\ r.prediction # "Incomplete/Invalid")

\* C20: the call returns for every frame, also when a concept is no column of
\* it: with a required concept absent the result is empty; with an optional
\* one absent the filings with all seven required fields are output, the
\* dependent ratio (X5, roe, eps) null.
C20_ReturnsWithoutRaising ==
    Called =>
        /\ CallReturned
        /\ ~(SevenRequired \subseteq df.columns) => df_results.rows = <<>>
        /\ \A i \in DOMAIN df.rows :
              HasAllSeven(df.rows[i]) =>
                 \E r \in OutputOf(i) :
                    /\ "Revenues" \notin df.columns => isna(r.X5)
                    /\ "NetIncomeLoss" \notin df.columns => isna(r.roe) /\ isna(r.eps)
                    /\ "CommonStockSharesOutstanding" \notin df.columns => isna(r.eps)

\* the exact score of input cells in is ScoreNum/ScoreDen, in units of 10^-2
ScoreNum(in) ==
    (656 * (in["AssetsCurrent"].val - in["LiabilitiesCurrent"].val)
        + 326 * in["RetainedEarnings"].val + 672 * in["EBIT"].val) * in["Liabilities"].val
    + 105 * in["StockholdersEquity"].val * in["Assets"].val
ScoreDen(in) == in["Assets"].val * in["Liabilities"].val

\* the weighted sum of the four ratios as they are output, in units of 10^-6
SumOfOutputRatios(r) == 656 * r.X1.val + 326 * r.X2.val + 672 * r.X3.val + 105 * r.X4.val

\* the output row has its four ratios
HasRatios(r) == IsNum(r.X1) /\ IsNum(r.X2) /\ IsNum(r.X3) /\ IsNum(r.X4)

\* C24: rounding comes after the arithmetic: the z_score that is output is the
\* 3-decimal rounding of 6.56*X1 + 3.26*X2 + 6.72*X3 + 1.05*X4 on the exact
\* ratios, X1..X5 and roe are output to 4 decimals and eps to 2 (stated on the
\* output rows that have X1..X4).
C24_RoundingAfterArithmetic ==
    CallReturned =>
        \A k \in DOMAIN df_results.rows :
            LET r == df_results.rows[k]
                in == df.rows[r.idx].cells
            IN  HasRatios(r) =>
                  /\ IsNum(r.z_score)
                  /\ IsRounded(r.z_score.val, ScoreNum(in), ScoreDen(in), 10)
                  /\ IsRounded(r.X1.val, in["AssetsCurrent"].val - in["LiabilitiesCurrent"].val,
                               in["Assets"].val, 10000)
                  /\ IsRounded(r.X2.val, in["RetainedEarnings"].val, in["Assets"].val, 10000)
                  /\ IsRounded(r.X3.val, in["EBIT"].val, in["Assets"].val, 10000)
                  /\ IsRounded(r.X4.val, in["StockholdersEquity"].val, in["Liabilities"].val, 10000)
                  /\ IsNum(in["Revenues"]) =>
                        IsRounded(r.X5.val, in["Revenues"].val, in["Assets"].val, 10000)
                  /\ IsNum(r.roe) =>
                        IsRounded(r.roe.val, in["NetIncomeLoss"].val,
                                  in["StockholdersEquity"].val, 10000)
                  /\ IsNum(r.eps) =>
                        IsRounded(r.eps.val, in["NetIncomeLoss"].val,
                                  in["CommonStockSharesOutstanding"].val, 100)

\* C24 witness: an output row whose z_score, 2.600, is not what the rounded
\* ratios that are output next to it would give (2.601).
C24_Witness ==
    /\ CallReturned
    /\ \E k \in DOMAIN df_results.rows :
          LET r == df_results.rows[k]
          IN  /\ HasRatios(r)
              /\ r.X1 = Num(1364) /\ r.X4 = Num(11429)
              /\ r.z_score = Num(2600)
              /\ ~IsRounded(r.z_score.val, SumOfOutputRatios(r), 1000, 1)
              /\ r.eps = Num(429)

\* C26: the label agrees with the score that is output: in every output row
\* not labelled "Incomplete/Invalid", prediction is "Safe" iff the output
\* z_score is above 2.6, "Grey" iff it is above 1.1 and at most 2.6, and
\* "Distress" iff it is at most 1.1.
C26_LabelMatchesOutputScore ==
    CallReturned =>
        \A k \in DOMAIN df_results.rows :
            LET r == df_results.rows[k]
            IN  r.prediction # "Incomplete/Invalid" =>
                  /\ IsNum(r.z_score)
                  /\ r.prediction \in {"Safe", "Grey", "Distress"}
                  /\ r.prediction = "Safe" <=> r.z_score.val > 2600
                  /\ r.prediction = "Grey" <=> (1100 < r.z_score.val /\ r.z_score.val <= 2600)
                  /\ r.prediction = "Distress" <=> r.z_score.val <= 1100

\* C26 witness: a filing whose exact score is above 2.6 is output with z_score
\* 2.6 and labelled "Grey".
C26_Witness ==
    /\ CallReturned
    /\ \E k \in DOMAIN df_results.rows :
          LET r == df_results.rows[k]
              in == df.rows[r.idx].cells
          IN  /\ HasRatios(r)
              /\ 10 * ScoreNum(in) > 2600 * ScoreDen(in)
              /\ ScoreDen(in) > 0
              /\ r.z_score = Num(2600)
              /\ r.prediction = "Grey"

\* the frame in which filing i reports rev as its Revenues, as the assembler
\* would have built it
WithRevenues(frame, i, rev) ==
    FrameOf([frame.rows EXCEPT ![i].cells["Revenues"] = rev])

\* the output rows a result has for input row i
RowsFor(res, i) == {res.rows[k] : k \in {j \in DOMAIN res.rows : res.rows[j].idx = i}}

\* C23: Revenues influences only X5: a filing and the same filing with any
\* other Revenues (a value, or none) are both output or both not, with the
\* same X1..X4, z_score, prediction, roe and eps; X5 is null when Revenues is
\* missing.
C23_RevenuesOnlyInX5 ==
    Called =>
        \A i \in DOMAIN df.rows : \A rev \in {NaN, Num(500), Num(800)} :
            LET mine == OutputOf(i)
                theirs == RowsFor(calculate_financial_ratios(WithRevenues(df, i, rev)), i)
            IN  /\ (mine = {}) <=> (theirs = {})
                /\ \A r \in mine : \A q \in theirs :
                      /\ r.X1 = q.X1 /\ r.X2 = q.X2 /\ r.X3 = q.X3 /\ r.X4 = q.X4
                      /\ r.z_score = q.z_score /\ r.prediction = q.prediction
                      /\ r.roe = q.roe /\ r.eps = q.eps
                /\ \A r \in mine : isna(df.rows[i].cells["Revenues"]) => isna(r.X5)

------------------------------------------------------------------------------
(* 4. save_results_to_db *)

\* the columns ON CONFLICT ... DO UPDATE SET refreshes
UpdatedColumns == {"z_score", "prediction", "eps", "roe", "data_source"}

\* the columns of the INSERT
InsertColumns ==
    {"adsh", "cik", "name", "ticker", "period", "fiscal_period", "fiscal_year",
     "x1_wcta", "x2_reta", "x3_ebitta", "x4_mvtl", "x5_salesta",
     "net_income", "total_equity", "shares_outstanding",
     "z_score", "prediction", "eps", "roe", "data_source"}

\* the conflict target (adsh, period)
Key(row) == <<row["adsh"], row["period"]>>

\* a plausible slip: DO UPDATE SET every column
Upsert_overwrite(tbl, row) ==
    {t \in tbl : Key(t) # Key(row)} \cup {row}

\* one execution of the statement: INSERT, or on a conflict on (adsh, period)
\* an UPDATE of the stored row's UpdatedColumns from the proposed row
Upsert(tbl, row) ==
    IF \E t \in tbl : Key(t) = Key(row)
    THEN {IF Key(t) = Key(row)
          THEN [c \in InsertColumns |-> IF c \in UpdatedColumns THEN row[c] ELSE t[c]]
          ELSE t : t \in tbl}
    ELSE tbl \cup {row}

RECURSIVE ExecuteMany(_, _)
\* cur.executemany(insert_query, data_to_insert): the statement once per row,
\* in list order
ExecuteMany(tbl, rows) ==
    IF rows = <<>> THEN tbl ELSE ExecuteMany(Upsert(tbl, Head(rows)), Tail(rows))

\* the table after the call: committed, or rolled back when the connection or a
\* statement fails
save_results_to_db(tbl, rows, ok) == IF ok THEN ExecuteMany(tbl, rows) ELSE tbl

------------------------------------------------------------------------------
(* Bounds and inputs of the result store *)

\* rows of one call
MaxResults == 2

DbFilings == {"a1", "a2"}
DbPeriods == {20221231, 20231231}
\* one run's worth of field values; every column differs from run to run
DbRuns == {1, 2}

\* a row as run v computes it for filing adsh and period p
DbRow(adsh, p, v) ==
    [c \in InsertColumns |->
        CASE c = "adsh" -> adsh
          [] c = "period" -> p
          [] c \in {"cik", "name", "ticker", "fiscal_period", "prediction", "data_source"}
                -> <<c, v>>
          [] OTHER -> 100 * v + Len(c)]

DbKeys == DbFilings \X DbPeriods

\* the stored rows of an earlier run (run 0) under a set of keys
StoredUnder(keys) == {DbRow(k[1], k[2], 0) : k \in keys}

DbProposed == {DbRow(a, p, v) : a \in DbFilings, p \in DbPeriods, v \in DbRuns}

------------------------------------------------------------------------------
(* Result store: state machine *)

DbInit ==
    /\ results_list \in SeqsUpTo(DbProposed, MaxResults)
    /\ db_table \in {StoredUnder(keys) : keys \in SUBSET DbKeys}
    /\ pcDb = "start"

\* save_results_to_db(results_list)
SaveResultsToDb ==
    /\ pcDb = "start"
    /\ \E ok \in BOOLEAN :
          /\ db_table' = save_results_to_db(db_table, results_list, ok)
          /\ pcDb' = IF ok THEN "saved" ELSE "failed"
    /\ UNCHANGED results_list
    /\ UNCHANGED dbOthers

DbNext == SaveResultsToDb

------------------------------------------------------------------------------
(* Claims about save_results_to_db *)

\* the positions of results_list that propose key k
ProposalsFor(k) == {i \in DOMAIN results_list : Key(results_list[i]) = k}

Greatest(S) == CHOOSE i \in S : \A j \in S : i >= j

\* the stored row under key k
RowOf(tbl, k) == CHOOSE t \in tbl : Key(t) = k

StoredKeys(tbl) == {Key(t) : t \in tbl}

\* C16: a committed call upserts by (adsh, period): the table keeps one row
\* per key; a proposed key that was not stored is inserted with all the
\* fields of its (first) proposed row, later rows of the call for that key
\* refreshing only the five derived fields; a proposed key that was stored
\* takes z_score, prediction, eps, roe and data_source from its (last) proposed
\* row and keeps every other stored field; rows of keys not proposed are
\* unchanged.
C16_UpsertByKey ==
    [][(pcDb = "start" /\ pcDb' = "saved") =>
        /\ \A t1 \in db_table' : \A t2 \in db_table' : Key(t1) = Key(t2) => t1 = t2
        /\ StoredKeys(db_table')
              = StoredKeys(db_table) \cup {Key(results_list[i]) : i \in DOMAIN results_list}
        /\ \A k \in StoredKeys(db_table') :
              LET new == RowOf(db_table', k)
              IN  IF ProposalsFor(k) = {} THEN new = RowOf(db_table, k)
                  ELSE LET first == results_list[Least(ProposalsFor(k))]
                           last == results_list[Greatest(ProposalsFor(k))]
                           base == IF k \in StoredKeys(db_table) THEN RowOf(db_table, k)
                                   ELSE first
                       IN  \A c \in InsertColumns :
                              new[c] = IF c \in UpdatedColumns THEN last[c] ELSE base[c]
      ]_vars

\* C16 witness: a committed call that met a stored key and a new key: the stored
\* row kept its name and X1 of run 0 and took the z_score and prediction of run
\* 2, next to a row inserted whole from run 1.
C16_Witness ==
    /\ pcDb = "saved"
    /\ \E t \in db_table :
          /\ t["name"] = <<"name", 0>> /\ t["x1_wcta"] = DbRow("a1", 20231231, 0)["x1_wcta"]
          /\ t["prediction"] = <<"prediction", 2>>
          /\ t["z_score"] = DbRow("a1", 20231231, 2)["z_score"]
    /\ \E t \in db_table : t = DbRow(t["adsh"], t["period"], 1)

\* C27: after runs that save results under the same (adsh, period) key the
\* stored row is the complete output record of one single run: its X1..X4,
\* net_income, total_equity and shares_outstanding are of the same computation
\* as its z_score, prediction, eps and roe.
C27_StoredRowOfOneRun ==
    pcDb = "saved" =>
        \A t \in db_table :
            \E v \in {0} \cup DbRuns : t = DbRow(t["adsh"], t["period"], v)

------------------------------------------------------------------------------
(* 5. main_process *)

\* the ticker download: a1's registrant has a ticker, a2's has none
cik_to_ticker_map == (<<"cik", "a1">> :> "AONE")

\* df_sub['data_source'] = basename(quarter_path);
\* df_sub['ticker'] = df_sub['cik'].map(cik_to_ticker_map).fillna('UNKNOWN')
Tagged(frame, q_name) ==
    [frame EXCEPT !.rows =
        [i \in DOMAIN frame.rows |->
            frame.rows[i] @@
            [data_source |-> q_name,
             ticker |-> IF frame.rows[i].cik \in DOMAIN cik_to_ticker_map
                        THEN cik_to_ticker_map[frame.rows[i].cik] ELSE "UNKNOWN"]]]

\* load_and_merge_data on one quarter directory, with its ways out: the files
\* are missing (an empty frame), pd.read_csv raises on sub.txt, the annual
\* filter leaves nothing (an empty frame, before num.txt is read), pd.read_csv
\* raises on num.txt, or the frame is assembled.  Nothing catches what read_csv
\* raises.
load_batch(q) ==
    IF q.state = "missing" THEN [status |-> "returned", frame |-> EmptyFrame]
    ELSE IF q.state = "sub_unreadable" THEN [status |-> "raised", frame |-> EmptyFrame]
    ELSE IF AnnualOnly(q.sub) = <<>> THEN [status |-> "returned", frame |-> EmptyFrame]
    ELSE IF q.state = "num_unreadable" THEN [status |-> "raised", frame |-> EmptyFrame]
    ELSE [status |-> "returned",
          frame |-> Tagged(load_and_merge_data(TRUE, q.sub, q.num), q.name)]

RECURSIVE ConcatRows(_)
ConcatRows(frames) ==
    IF frames = <<>> THEN <<>> ELSE Head(frames).rows \o ConcatRows(Tail(frames))

\* pd.concat(all_combined_data, ignore_index=True): every row of every frame, in
\* order; the columns are the union and a cell of a column the row's frame did
\* not have is NaN
concat(frames) ==
    [rows |-> ConcatRows(frames),
     columns |-> UNION {frames[i].columns : i \in DOMAIN frames}]

DaysIn(y, m) ==
    IF m \in {4, 6, 9, 11} THEN 30
    ELSE IF m = 2 THEN (IF (y % 4 = 0 /\ y % 100 # 0) \/ y % 400 = 0 THEN 29 ELSE 28)
    ELSE 31

\* pd.to_datetime(period, format='%Y%m%d', errors='coerce') gives a date
ValidDate(p) ==
    /\ p.kind = "num"
    /\ LET y == p.val \div 10000
           m == (p.val \div 100) % 100
           d == p.val % 100
       IN  y >= 1 /\ m \in 1..12 /\ d >= 1 /\ d <= DaysIn(y, m)

\* df_final.dropna(subset=['period', 'fy']) after the date conversion
WithPeriodAndFy(rows) ==
    SelectSeq(rows, LAMBDA r : ValidDate(r.period) /\ r.fy.kind = "num")

\* df_to_analyze[df_to_analyze['fy'] == target_year] when a year is asked for
OfYear(rows, year) ==
    IF isna(year) THEN rows ELSE SelectSeq(rows, LAMBDA r : r.fy = year)

\* one row of results_list: the renamed columns of the result row, the
\* metadata of the row it was computed from
ToDbRow(in_row, r) ==
    [c \in InsertColumns |->
        CASE c = "adsh" -> in_row.adsh
          [] c = "cik" -> in_row.cik
          [] c = "name" -> in_row.name
          [] c = "ticker" -> in_row.ticker
          [] c = "period" -> in_row.period
          [] c = "fiscal_period" -> in_row.fp
          [] c = "fiscal_year" -> in_row.fy
          [] c = "x1_wcta" -> r.X1
          [] c = "x2_reta" -> r.X2
          [] c = "x3_ebitta" -> r.X3
          [] c = "x4_mvtl" -> r.X4
          [] c = "x5_salesta" -> r.X5
          [] c = "net_income" -> r.cells["NetIncomeLoss"]
          [] c = "total_equity" -> r.cells["StockholdersEquity"]
          [] c = "shares_outstanding" -> r.cells["CommonStockSharesOutstanding"]
          [] c = "z_score" -> r.z_score
          [] c = "prediction" -> r.prediction
          [] c = "eps" -> r.eps
          [] c = "roe" -> r.roe
          [] c = "data_source" -> in_row.data_source]

ToDbRows(frame, res) ==
    [k \in DOMAIN res.rows |-> ToDbRow(frame.rows[res.rows[k].idx], res.rows[k])]

------------------------------------------------------------------------------
(* Bounds and inputs of a run *)

\* quarter directories of a run
MaxBatches == 2

\* the ten facts of a filing, one per concept, under the concept's first alias
FactsOfFiling(f) ==
    [i \in DOMAIN CANONICAL_TAG_MAP |->
        [adsh |-> f.adsh, tag |-> CANONICAL_TAG_MAP[i].tags[1], dim |-> NaN,
         value |-> f.cells[CANONICAL_TAG_MAP[i].name]]]

\* the facts among them that carry a value
ValuedFactsOfFiling(f) == SelectSeq(FactsOfFiling(f), LAMBDA r : notna(r.value))

WorkedFiling(adsh) ==
    Filing(adsh, Num(1000), Num(200), Num(400), Num(150), Num(80), Num(600),
           Num(500), Num(400), Num(50), Num(100))
GreyFilingOf(adsh) ==
    Filing(adsh, Num(1000), Num(200), Num(300), Num(100), Num(50), Num(500),
           Num(800), Num(500), Num(40), Num(10))
SevenOnlyFiling(adsh) ==
    Filing(adsh, Num(1000), Num(200), Num(400), Num(150), Num(80), Num(600),
           NaN, Num(400), NaN, NaN)

\* fact tables of a batch
RunNumTables ==
    { ValuedFactsOfFiling(WorkedFiling("a1")),
      ValuedFactsOfFiling(GreyFilingOf("a1")),
      ValuedFactsOfFiling(WorkedFiling("a1")) \o ValuedFactsOfFiling(GreyFilingOf("a2")),
      ValuedFactsOfFiling(SevenOnlyFiling("a2")) }

\* metadata tables of a batch: a filing listed once or twice, two filings, a
\* quarterly report, a period that is no date, another fiscal year
RunSubTables ==
    { <<Meta("a1", "FY")>>,
      <<Meta("a1", "FY"), Meta("a1", "FY")>>,
      <<Meta("a1", "FY"), Meta("a2", "FY")>>,
      <<Meta("a1", "Q1")>>,
      <<MetaRow("a2", "FY", Num(20231345), Num(2023))>>,
      <<MetaRow("a2", "FY", Num(20221231), Num(2022))>> }

ReadableBatches ==
    [name : {"2023q4"}, state : {"ok"}, sub : RunSubTables, num : RunNumTables]

\* batches whose files are missing or cannot be parsed
BrokenBatches ==
    [name : {"2024q1"}, state : {"missing", "sub_unreadable", "num_unreadable"},
     sub : {<<Meta("a1", "FY")>>, <<Meta("a1", "Q1")>>},
     num : {ValuedFactsOfFiling(WorkedFiling("a1"))}]

Batches == ReadableBatches \cup BrokenBatches

Years == {NaN, Num(2023)}

------------------------------------------------------------------------------
(* main_process: state machine *)

RunInit ==
    /\ target_year \in Years
    /\ quarter_dirs \in SeqsUpTo(Batches, MaxBatches)
    /\ q_idx = 0
    /\ outcomes = <<>>
    /\ all_combined_data = <<>>
    /\ df_final = EmptyFrame
    /\ run_results = NoResult
    /\ pcRun = "loading"
    /\ results_list = <<>>
    /\ db_table = {}
    /\ pcDb = "start"

\* one turn of the loop over quarter_dirs; what load_and_merge_data raises is
\* not caught and ends main_process
LoadBatch ==
    /\ pcRun = "loading"
    /\ q_idx < Len(quarter_dirs)
    /\ LET df_combined == load_batch(quarter_dirs[q_idx + 1])
       IN  /\ outcomes' = Append(outcomes, df_combined)
           /\ q_idx' = q_idx + 1
           /\ IF df_combined.status = "raised"
              THEN pcRun' = "raised" /\ UNCHANGED all_combined_data
              ELSE /\ pcRun' = "loading"
                   /\ all_combined_data' =
                         IF ~empty(df_combined.frame)
                         THEN Append(all_combined_data, df_combined.frame)
                         ELSE all_combined_data
    /\ UNCHANGED <<target_year, quarter_dirs, df_final, run_results>>
    /\ UNCHANGED dbVars
    /\ UNCHANGED runOthers

\* after the loop there is nothing to analyze: main_process returns
ExitWithoutData ==
    /\ pcRun = "loading"
    /\ q_idx = Len(quarter_dirs)
    /\ all_combined_data = <<>>
    /\ pcRun' = "no_data"
    /\ UNCHANGED <<target_year, quarter_dirs, q_idx, outcomes, all_combined_data,
                   df_final, run_results>>
    /\ UNCHANGED dbVars
    /\ UNCHANGED runOthers

\* after the loop: concat, the period and year filters,
\* calculate_financial_ratios and save_results_to_db
AnalyzeAndSave ==
    /\ pcRun = "loading"
    /\ q_idx = Len(quarter_dirs)
    /\ all_combined_data # <<>>
    /\ LET all == concat(all_combined_data)
           df_to_analyze ==
               [all EXCEPT !.rows = OfYear(WithPeriodAndFy(all.rows), target_year)]
           res == calculate_financial_ratios(df_to_analyze)
       IN  /\ df_final' = df_to_analyze
           /\ IF notna(target_year) /\ empty(df_to_analyze)
              THEN /\ pcRun' = "no_year"
                   /\ UNCHANGED <<run_results, results_list, db_table, pcDb>>
              ELSE /\ run_results' = res
                   /\ IF res.status # "returned"
                      THEN /\ pcRun' = "raised"
                           /\ UNCHANGED <<results_list, db_table, pcDb>>
                      ELSE IF res.rows = <<>>
                      THEN /\ pcRun' = "no_results"
                           /\ UNCHANGED <<results_list, db_table, pcDb>>
                      ELSE /\ pcRun' = "done"
                           /\ results_list' = ToDbRows(df_to_analyze, res)
                           /\ \E ok \in BOOLEAN :
                                 /\ db_table' = save_results_to_db(db_table, results_list', ok)
                                 /\ pcDb' = IF ok THEN "saved" ELSE "failed"
    /\ UNCHANGED <<target_year, quarter_dirs, q_idx, outcomes, all_combined_data>>
    /\ UNCHANGED runOthers

RunNext == LoadBatch \/ ExitWithoutData \/ AnalyzeAndSave

------------------------------------------------------------------------------
(* Claims about a run *)

\* no two rows of a sequence of records are of the same filing
OnePerFiling(rows) ==
    \A i \in DOMAIN rows : \A j \in DOMAIN rows : i # j => rows[i].adsh # rows[j].adsh

\* C12: within a run there is at most one record and at most one output row
\* per filing: among the records collected from all batches, among the rows
\* calculate_financial_ratios gave, and among the rows handed to the store.
C12_OneRecordPerFiling ==
    /\ OnePerFiling(ConcatRows(all_combined_data))
    /\ OnePerFiling(run_results.rows)
    /\ \A i \in DOMAIN results_list : \A j \in DOMAIN results_list :
          i # j => results_list[i]["adsh"] # results_list[j]["adsh"]

\* the batches that can be read
Readable(q) == q.state = "ok"

RECURSIVE FramesOfReadable(_)
\* the non-empty frames of the readable batches, in order
FramesOfReadable(dirs) ==
    IF dirs = <<>> THEN <<>>
    ELSE IF Readable(Head(dirs)) /\ ~empty(load_batch(Head(dirs)).frame)
         THEN <<load_batch(Head(dirs)).frame>> \o FramesOfReadable(Tail(dirs))
         ELSE FramesOfReadable(Tail(dirs))

\* C17: a batch that cannot be parsed is skipped and the run goes on: when the
\* run has ended the loop has been through every batch, the records of every
\* readable batch have been collected, and if there are any they have been
\* handed to calculate_financial_ratios (or set aside by the year filter).
C17_UnreadableBatchSkipped ==
    pcRun # "loading" =>
        /\ q_idx = Len(quarter_dirs)
        /\ all_combined_data = FramesOfReadable(quarter_dirs)
        /\ all_combined_data # <<>> => (run_results # NoResult \/ pcRun = "no_year")

\* C18: what load_and_merge_data gives for a batch whose input is missing or
\* unreadable is an error, never the empty frame a readable batch without
\* qualifying filings gives.
C18_UnreadableDistinctFromEmpty ==
    \A i \in DOMAIN outcomes :
        ~Readable(quarter_dirs[i]) =>
            /\ outcomes[i].status = "raised"
            /\ outcomes[i] # [status |-> "returned", frame |-> EmptyFrame]

------------------------------------------------------------------------------
(* 6. diagnose_missing_tags_v2 *)

\* the characters of the concept names and of the raw labels of the
\* diagnosed filings
Spelling ==
    ("Assets" :> <<"A", "s", "s", "e", "t", "s">>) @@
    ("LiabilitiesCurrent" :> <<"L", "i", "a", "b", "i", "l", "i", "t", "i", "e", "s", "C", "u", "r", "r", "e", "n", "t">>) @@
    ("AssetsCurrent" :> <<"A", "s", "s", "e", "t", "s", "C", "u", "r", "r", "e", "n", "t">>) @@
    ("RetainedEarnings" :> <<"R", "e", "t", "a", "i", "n", "e", "d", "E", "a", "r", "n", "i", "n", "g", "s">>) @@
    ("EBIT" :> <<"E", "B", "I", "T">>) @@
    ("Liabilities" :> <<"L", "i", "a", "b", "i", "l", "i", "t", "i", "e", "s">>) @@
    ("Revenues" :> <<"R", "e", "v", "e", "n", "u", "e", "s">>) @@
    ("StockholdersEquity" :> <<"S", "t", "o", "c", "k", "h", "o", "l", "d", "e", "r", "s", "E", "q", "u", "i", "t", "y">>) @@
    ("OtherAssetsNoncurrent" :> <<"O", "t", "h", "e", "r", "A", "s", "s", "e", "t", "s", "N", "o", "n", "c", "u", "r", "r", "e", "n", "t">>) @@
    ("ClassOfStock" :> <<"C", "l", "a", "s", "s", "O", "f", "S", "t", "o", "c", "k">>) @@
    ("AssetsHeldForSale" :> <<"A", "s", "s", "e", "t", "s", "H", "e", "l", "d", "F", "o", "r", "S", "a", "l", "e">>) @@
    ("IntangibleAssetsNet" :> <<"I", "n", "t", "a", "n", "g", "i", "b", "l", "e", "A", "s", "s", "e", "t", "s", "N", "e", "t">>) @@
    ("EBITDA" :> <<"E", "B", "I", "T", "D", "A">>) @@
    ("Goodwill" :> <<"G", "o", "o", "d", "w", "i", "l", "l">>) @@
    ("OperatingIncomeLoss" :> <<"O", "p", "e", "r", "a", "t", "i", "n", "g", "I", "n", "c", "o", "m", "e", "L", "o", "s", "s">>)

UpperCase == <<"A", "B", "C", "D", "E", "F", "G", "H", "I", "J", "K", "L", "M", "N", "O", "P", "Q", "R", "S", "T", "U", "V", "W", "X", "Y", "Z">>
LowerCase == <<"a", "b", "c", "d", "e", "f", "g", "h", "i", "j", "k", "l", "m", "n", "o", "p", "q", "r", "s", "t", "u", "v", "w", "x", "y", "z">>

\* str.lower() on one character and on a text
LowerChar(ch) ==
    IF \E i \in DOMAIN UpperCase : UpperCase[i] = ch
    THEN LowerCase[CHOOSE i \in DOMAIN UpperCase : UpperCase[i] = ch]
    ELSE ch
lower(text) == [i \in DOMAIN text |-> LowerChar(text[i])]

\* needle in hay, on texts
Contains(hay, needle) ==
    \E i \in 0..(Len(hay) - Len(needle)) : SubSeq(hay, i + 1, i + Len(needle)) = needle

\* text[:n]
Prefix(text, n) == SubSeq(text, 1, IF Len(text) < n THEN Len(text) ELSE n)

RECURSIVE unique(_)
\* Series.unique(): the distinct values in order of first appearance
unique(seq) ==
    IF seq = <<>> THEN <<>>
    ELSE LET init == unique(SubSeq(seq, 1, Len(seq) - 1))
             x == seq[Len(seq)]
         IN  IF x \in Range(init) THEN init ELSE Append(init, x)

\* missing_tag.lower() in tag.lower() or missing_tag[:3].lower() in tag.lower()
SimilarName(missing_tag, tag) ==
    \/ Contains(lower(Spelling[tag]), lower(Spelling[missing_tag]))
    \/ Contains(lower(Spelling[tag]), lower(Prefix(Spelling[missing_tag], 3)))

\* SimilarName, worked out once for every concept and every label spelled above
SimilarNames ==
    [p \in Range(Z_SCORE_CORE_TAGS) \X DOMAIN Spelling |-> SimilarName(p[1], p[2])]

\* a plausible slip: the test "tag not in tag_rename_map" left out
unmapped_tags_in_company_any(missing_tag, all_original_tags, index) ==
    SelectSeq(all_original_tags, LAMBDA tag : SimilarNames[<<missing_tag, tag>>])

\* the similar labels of the filing that are no key of the index
unmapped_tags_in_company(missing_tag, all_original_tags, index) ==
    SelectSeq(all_original_tags,
              LAMBDA tag : SimilarNames[<<missing_tag, tag>>] /\ tag \notin DOMAIN index)

\* the lines printed for one missing concept: up to three examples, or the
\* message that the item may be missing from the report
MissingCause(missing_tag, all_original_tags, index) ==
    LET found == unmapped_tags_in_company(missing_tag, all_original_tags, index)
    IN  [tag |-> missing_tag,
         examples |-> Prefix(found, 3),
         item_missing |-> Len(found) = 0]

\* get_tag_rename_map(alias_map), the index of the shipped table worked out once
IndexOf(alias_map) ==
    IF alias_map = CANONICAL_TAG_MAP THEN ShippedRenameMap
    ELSE get_tag_rename_map(alias_map)

NoReport == [kind |-> "none", present |-> <<>>, missing |-> <<>>, causes |-> <<>>]

\* a plausible slip: the examples are added to the alias table
diagnose_missing_tags_v2_autoadd(alias_map, filing_found, readable, adsh, num_rows) ==
    LET index == IndexOf(alias_map)
        df_num_target == SelectSeq(num_rows, LAMBDA r : r.adsh = adsh /\ isna(r.dim))
        tags == [i \in DOMAIN df_num_target |-> df_num_target[i].tag]
        extra == SelectSeq(unique(tags), LAMBDA t : t \notin DOMAIN index)
    IN  [report |-> NoReport,
         index |-> index,
         canonical_map |->
            [i \in DOMAIN alias_map |->
                IF i = 1 THEN [alias_map[i] EXCEPT !.tags = @ \o extra] ELSE alias_map[i]]]

\* present_tags: the concepts the filing's labels map to, in order of first
\* appearance
present_tags_of(tags, index) ==
    unique(SelectSeq([i \in DOMAIN tags |-> DictGet(index, tags[i])], LAMBDA c : c # None))

\* missing_core_tags = [tag for tag in Z_SCORE_CORE_TAGS if tag not in present_tags]
missing_core_tags_of(present_tags) ==
    LET present == Range(present_tags)
    IN  SelectSeq(Z_SCORE_CORE_TAGS, LAMBDA c : c \notin present)

\* what is printed for a filing whose context-free facts carry these labels
AnalysisResult(present_tags, missing_core_tags, all_original_tags, index) ==
    [kind |-> IF missing_core_tags = <<>> THEN "all_mapped" ELSE "missing",
     present |-> present_tags,
     missing |-> missing_core_tags,
     causes |-> [k \in DOMAIN missing_core_tags |->
                   MissingCause(missing_core_tags[k], all_original_tags, index)]]

\* df_num[df_num['adsh'] == adsh], then [df_num_target['dim'].isna()]: the labels
labels_of_target(num_rows, adsh) ==
    LET df_num_target == SelectSeq(num_rows, LAMBDA r : r.adsh = adsh /\ isna(r.dim))
    IN  [i \in DOMAIN df_num_target |-> df_num_target[i].tag]

Diagnosis(tags, present_tags, index) ==
    AnalysisResult(present_tags, missing_core_tags_of(present_tags), unique(tags), index)

\* The call on the registrant's latest annual filing: what it prints, the
\* index it builds, and the alias table as the call leaves it.
diagnose_missing_tags_v2(alias_map, filing_found, readable, adsh, num_rows) ==
    IF ~filing_found
    THEN [report |-> [NoReport EXCEPT !.kind = "no_filing"],
          index |-> EmptyDict, canonical_map |-> alias_map]
    ELSE IF ~readable
    THEN [report |-> [NoReport EXCEPT !.kind = "num_unreadable"],
          index |-> IndexOf(alias_map), canonical_map |-> alias_map]
    ELSE [report |-> Diagnosis(labels_of_target(num_rows, adsh),
                               present_tags_of(labels_of_target(num_rows, adsh),
                                               IndexOf(alias_map)),
                               IndexOf(alias_map)),
          index |-> IndexOf(alias_map), canonical_map |-> alias_map]

------------------------------------------------------------------------------
(* Bounds and inputs of the diagnostics *)

\* fact rows of the filing beyond its reported concepts
MaxDiagRows == 2

DiagFact(adsh, tag, dim) == [adsh |-> adsh, tag |-> tag, dim |-> dim, value |-> Num(10)]

\* the context-free facts of a1 under the name of each concept of a list
\* that is an alias
ReportedFacts(concepts) ==
    LET named == SelectSeq(concepts, LAMBDA c : c \in ALL_POTENTIAL_TAGS)
    IN  [i \in DOMAIN named |-> DiagFact("a1", named[i], NaN)]

\* what the filing reports to begin with: nothing, four unmapped labels that
\* resemble Assets, the seven required concepts other than EBIT (which is no
\* alias of itself) plus OperatingIncomeLoss, or these and Revenues
DiagBases ==
    { <<>>,
      << DiagFact("a1", "OtherAssetsNoncurrent", NaN), DiagFact("a1", "ClassOfStock", NaN),
         DiagFact("a1", "AssetsHeldForSale", NaN), DiagFact("a1", "IntangibleAssetsNet", NaN) >>,
      ReportedFacts(<<"Assets", "LiabilitiesCurrent", "AssetsCurrent", "RetainedEarnings",
                      "Liabilities", "StockholdersEquity">>)
         \o <<DiagFact("a1", "OperatingIncomeLoss", NaN)>>,
      ReportedFacts(<<"Assets", "LiabilitiesCurrent", "AssetsCurrent", "RetainedEarnings",
                      "Liabilities", "StockholdersEquity", "Revenues">>)
         \o <<DiagFact("a1", "OperatingIncomeLoss", NaN)>> }

\* further rows: a1's context-free facts under unmapped labels and an alias, a
\* fact of a1 with a dimension key, a fact of another filing
DiagRows ==
    {DiagFact("a1", t, NaN) : t \in {"OtherAssetsNoncurrent", "EBITDA", "Goodwill", "Assets"}}
    \cup {DiagFact("a1", "AssetsHeldForSale", Str), DiagFact("a2", "IntangibleAssetsNet", NaN)}

\* labels looked up after a diagnosis
DiagProbe == {"Assets", "OtherAssetsNoncurrent"}

------------------------------------------------------------------------------
(* Diagnostics: state machine *)

DiagInit ==
    /\ canonical_map = CANONICAL_TAG_MAP
    /\ tag_rename_map = EmptyDict
    /\ lookup = [label |-> None, result |-> None]
    /\ pcCanon = "start"
    /\ diag_adsh = "a1"
    /\ \E base \in DiagBases : \E more \in SeqsUpTo(DiagRows, MaxDiagRows) :
          diag_num = base \o more
    /\ diag_report = NoReport
    /\ pcDiag = "start"

\* diagnose_missing_tags_v2(cik_id), the latest annual filing found or not, its
\* num.txt readable or not
Diagnose ==
    /\ \E filing_found \in BOOLEAN : \E readable \in {b \in BOOLEAN : filing_found \/ b} :
          \E out \in {diagnose_missing_tags_v2(canonical_map, filing_found, readable,
                                               diag_adsh, diag_num)} :
              /\ diag_report' = out.report
              /\ canonical_map' = out.canonical_map
              /\ IF filing_found
                 THEN tag_rename_map' = out.index /\ pcCanon' = "built"
                 ELSE UNCHANGED <<tag_rename_map, pcCanon>>
    /\ pcDiag' = "reported"
    /\ UNCHANGED <<lookup, diag_adsh, diag_num>>
    /\ UNCHANGED diagOthers

\* a lookup in the index after a diagnosis
LookupAfterDiagnosis ==
    /\ pcDiag = "reported"
    /\ pcCanon = "built"
    /\ \E label \in DiagProbe :
          lookup' = [label |-> label, result |-> DictGet(tag_rename_map, label)]
    /\ UNCHANGED <<canonical_map, tag_rename_map, pcCanon>>
    /\ UNCHANGED diagVars
    /\ UNCHANGED diagOthers

DiagNext == Diagnose \/ LookupAfterDiagnosis \/ LoadAndMergeData \/ CalculateFinancialRatios

------------------------------------------------------------------------------
(* Claims about the diagnostics *)

\* the raw labels of the diagnosed filing's context-free facts
TargetLabels ==
    {diag_num[i].tag : i \in {j \in DOMAIN diag_num :
                                diag_num[j].adsh = diag_adsh /\ isna(diag_num[j].dim)}}

\* the concepts found among them
FoundConcepts == {c \in ALL_CANONICAL_TAGS : TargetLabels \cap AliasesOf(c) # {}}

Analysed == diag_report.kind \in {"missing", "all_mapped"}

\* C13: the concepts reported missing are exactly those of the seven required
\* by the ratio engine (Revenues exempt) that are not found among the filing's
\* context-free facts; a filing with all seven and no Revenues has nothing
\* missing.
C13_MissingAreOfTheSeven ==
    Analysed =>
        /\ Range(diag_report.missing) = SevenRequired \ FoundConcepts
        /\ SevenRequired \subseteq FoundConcepts => diag_report.kind = "all_mapped"

\* the labels of the filing that are no alias and resemble concept m
Resembling(m) ==
    {t \in TargetLabels :
        /\ t \notin ALL_POTENTIAL_TAGS
        /\ \/ Contains(lower(Spelling[t]), lower(Spelling[m]))
           \/ Contains(lower(Spelling[t]), lower(Prefix(Spelling[m], 3)))}

\* C14: for each missing concept at most 3 candidate labels are reported; each
\* is a label of a context-free fact of the filing, is no alias in the
\* canonical map, and contains, lowercased, the lowercased concept name or its
\* first three characters; the "may be missing from this report" message is
\* given exactly when the filing has no such label.
C14_CandidateLabels ==
    Analysed =>
        /\ DOMAIN diag_report.causes = DOMAIN diag_report.missing
        /\ \A k \in DOMAIN diag_report.causes :
              LET cause == diag_report.causes[k]
              IN  /\ cause.tag = diag_report.missing[k]
                  /\ Len(cause.examples) <= 3
                  /\ Range(cause.examples) \subseteq Resembling(cause.tag)
                  /\ cause.item_missing <=> Resembling(cause.tag) = {}
                  /\ cause.item_missing <=> cause.examples = <<>>

\* C14 witness: a report in which Assets has four resembling labels and three
\* are given, EBIT resembles EBITDA, and Revenues has none.
C14_Witness ==
    /\ Analysed
    /\ \E k \in DOMAIN diag_report.causes :
          /\ diag_report.causes[k].tag = "Assets"
          /\ Cardinality(Resembling("Assets")) = 4
          /\ Len(diag_report.causes[k].examples) = 3
    /\ \E k \in DOMAIN diag_report.causes :
          diag_report.causes[k].tag = "EBIT" /\ diag_report.causes[k].examples = <<"EBITDA">>
    /\ \E k \in DOMAIN diag_report.causes :
          diag_report.causes[k].tag = "Revenues" /\ diag_report.causes[k].item_missing

\* C15: whatever assembler, ratio and diagnostic calls have been made, the
\* alias table is the shipped one, the index built from it is the index of the
\* shipped table, and every lookup gives what the shipped table gives.
C15_AliasTableUntouched ==
    /\ canonical_map = CANONICAL_TAG_MAP
    /\ pcCanon = "built" => tag_rename_map = ShippedRenameMap
    /\ lookup.label # None =>
          lookup.result = (IF ListedUnder(CANONICAL_TAG_MAP, lookup.label) = {} THEN None
                           ELSE CHOOSE c \in ListedUnder(CANONICAL_TAG_MAP, lookup.label) : TRUE)

\* C15 witness: the assembler and the ratio engine have run, a diagnosis has
\* given OtherAssetsNoncurrent as a candidate alias of Assets, and a lookup of
\* that label after it still finds nothing.
C15_Witness ==
    /\ pcAsm = "returned" /\ pcRatio \in {"returned", "raised"}
    /\ Analysed
    /\ \E k \in DOMAIN diag_report.causes :
          /\ diag_report.causes[k].tag = "Assets"
          /\ "OtherAssetsNoncurrent" \in Range(diag_report.causes[k].examples)
    /\ lookup = [label |-> "OtherAssetsNoncurrent", result |-> None]

------------------------------------------------------------------------------
(* 7. parse_8k_bankruptcy.py: the checkpointed labelling run *)

(* Text is a sequence of tokens: the separators "," and "\n" and the pieces of *)
(* the fields.  A File Path is the token "edgar/data/" (or another directory)  *)
(* followed by the token that names the filing.                                *)

FIELD_NAMES == <<"CIK", "Form Type", "Filing Date", "File Path">>

\* what writer.writeheader() writes
HeaderText == <<"CIK", ",", "Form Type", ",", "Filing Date", ",", "File Path", ",", "Label", "\n">>

\* get_last_processed_path's None
NoPath == <<>>

\* row['File Path'].strip() of an input row
FilePath(r) == <<r.dir, r.id>>

\* file_path.startswith('edgar/data/')
StartsWithEdgar(text) == text # <<>> /\ text[1] = "edgar/data/"

\* what writer.writerow(row) writes once row['Label'] = 1
RowText(r) == <<r.cik, ",", "8-K", ",", r.date, ",">> \o FilePath(r) \o <<",", "1", "\n">>

RECURSIVE Split(_, _)
\* text.split(sep): the pieces between the separators, empty pieces included
Split(text, sep) ==
    IF \A i \in DOMAIN text : text[i] # sep THEN <<text>>
    ELSE LET k == CHOOSE i \in DOMAIN text :
                    text[i] = sep /\ \A j \in 1..(i - 1) : text[j] # sep
         IN  <<SubSeq(text, 1, k - 1)>> \o Split(SubSeq(text, k + 1, Len(text)), sep)

\* [line.strip() for line in f if line.strip()]
NonEmptyLines(text) == SelectSeq(Split(text, "\n"), LAMBDA line : line # <<>>)

\* the rows that are not the header: not line.startswith('CIK')
DataLines(text) == SelectSeq(NonEmptyLines(text), LAMBDA line : line[1] # FIELD_NAMES[1])

\* The checkpoint: the fourth field of the last data line of the output file,
\* if the line has one and it starts with 'edgar/data/'; None otherwise, also
\* when the file is missing or empty.
get_last_processed_path(text) ==
    IF text = <<>> THEN NoPath
    ELSE LET data_lines == DataLines(text)
         IN  IF data_lines = <<>> THEN NoPath
             ELSE LET parts == Split(data_lines[Len(data_lines)], ",")
                  IN  IF Len(parts) > 3 /\ StartsWithEdgar(parts[4]) THEN parts[4]
                      ELSE NoPath

\* "item 1.03" in text.lower(), None when the download failed
is_bankruptcy_event(downloaded, r) == downloaded /\ r.item_103

------------------------------------------------------------------------------
(* Bounds and inputs of the labelling run *)

\* runs of main on the same input
MaxLabelRuns == 3

\* An index of three filings with distinct File Paths, each reporting item
\* 1.03 or not; the second row may lie outside edgar/data/ or lack its File
\* Path field.
IndexRow(n, kind, item_103) ==
    [cik |-> <<"c1", "c2", "c3">>[n], date |-> "2025-01-02",
     dir |-> IF kind = "other" THEN "misc/" ELSE "edgar/data/",
     id |-> <<"f1", "f2", "f3">>[n], kind |-> kind, item_103 |-> item_103]

InputIndexes ==
    { <<IndexRow(1, "edgar", e1), IndexRow(2, k2, e2), IndexRow(3, "edgar", e3)>> :
        e1 \in BOOLEAN, e2 \in BOOLEAN, e3 \in BOOLEAN, k2 \in {"edgar", "other", "short"} }

------------------------------------------------------------------------------
(* Labelling run: state machine *)

LabelInit ==
    /\ input_index \in InputIndexes
    /\ out_file = <<>>
    /\ out_buffer = <<>>
    /\ last_processed_path = NoPath
    /\ found_checkpoint = FALSE
    /\ reader_pos = 0
    /\ processed = {}
    /\ failed_downloads = FALSE
    /\ runs = 0
    /\ pcLabel = "idle"

\* main up to the loop: the checkpoint is read, the output is opened for
\* append and the header is written if the file is empty
StartRun ==
    /\ pcLabel \in {"idle", "done"}
    /\ runs < MaxLabelRuns
    /\ runs' = runs + 1
    /\ last_processed_path' = get_last_processed_path(out_file)
    /\ found_checkpoint' = FALSE
    /\ reader_pos' = 0
    /\ processed' = {}
    /\ out_buffer' = IF out_file = <<>> THEN HeaderText ELSE <<>>
    /\ pcLabel' = "running"
    /\ UNCHANGED <<input_index, out_file, failed_downloads>>
    /\ UNCHANGED labelOthers

\* one turn of the loop, up to and including writer.writerow(row)
ProcessRow ==
    /\ pcLabel = "running"
    /\ reader_pos < Len(input_index)
    /\ reader_pos' = reader_pos + 1
    /\ LET r == input_index[reader_pos + 1]
       IN  IF r.kind = "short" \/ ~StartsWithEdgar(FilePath(r))
           THEN UNCHANGED <<found_checkpoint, processed, failed_downloads, out_buffer, pcLabel>>
           ELSE IF last_processed_path # NoPath /\ ~found_checkpoint
           THEN /\ found_checkpoint' = (FilePath(r) = last_processed_path)
                /\ UNCHANGED <<processed, failed_downloads, out_buffer, pcLabel>>
           ELSE /\ processed' = processed \cup {reader_pos + 1}
                /\ \E downloaded \in BOOLEAN :
                      /\ failed_downloads' = (failed_downloads \/ ~downloaded)
                      /\ IF is_bankruptcy_event(downloaded, r)
                         THEN out_buffer' = out_buffer \o RowText(r) /\ pcLabel' = "written"
                         ELSE UNCHANGED <<out_buffer, pcLabel>>
                /\ UNCHANGED found_checkpoint
    /\ UNCHANGED <<input_index, out_file, last_processed_path, runs>>
    /\ UNCHANGED labelOthers

\* outfile.flush(); os.fsync(outfile.fileno())
Flush ==
    /\ pcLabel = "written"
    /\ out_file' = out_file \o out_buffer
    /\ out_buffer' = <<>>
    /\ pcLabel' = "running"
    /\ UNCHANGED <<input_index, last_processed_path, found_checkpoint, reader_pos,
                   processed, failed_downloads, runs>>
    /\ UNCHANGED labelOthers

\* the loop is over: the with block closes (and flushes) the output
Finish ==
    /\ pcLabel = "running"
    /\ reader_pos = Len(input_index)
    /\ out_file' = out_file \o out_buffer
    /\ out_buffer' = <<>>
    /\ pcLabel' = "done"
    /\ UNCHANGED <<input_index, last_processed_path, found_checkpoint, reader_pos,
                   processed, failed_downloads, runs>>
    /\ UNCHANGED labelOthers

\* The run is interrupted between two statements: by an exception, which
\* unwinds through the with block and flushes what is buffered, or by a kill,
\* which loses it.
Interrupt ==
    /\ pcLabel \in {"running", "written"}
    /\ \E flushed \in BOOLEAN :
          out_file' = IF flushed THEN out_file \o out_buffer ELSE out_file
    /\ out_buffer' = <<>>
    /\ pcLabel' = "idle"
    /\ UNCHANGED <<input_index, last_processed_path, found_checkpoint, reader_pos,
                   processed, failed_downloads, runs>>
    /\ UNCHANGED labelOthers

\* The run is killed in the middle of the flush: a proper part of the buffered
\* text has reached the file.
TornFlush ==
    /\ pcLabel = "written"
    /\ \E n \in 1..(Len(out_buffer) - 1) :
          out_file' = out_file \o SubSeq(out_buffer, 1, n)
    /\ out_buffer' = <<>>
    /\ pcLabel' = "idle"
    /\ UNCHANGED <<input_index, last_processed_path, found_checkpoint, reader_pos,
                   processed, failed_downloads, runs>>
    /\ UNCHANGED labelOthers

LabelNext == StartRun \/ ProcessRow \/ Flush \/ Finish \/ Interrupt \/ TornFlush

------------------------------------------------------------------------------
(* Claims about the labelling run *)

\* the times the File Path of input row r stands in the output file
TimesWritten(r) ==
    Cardinality({i \in 1..(Len(out_file) - 1) :
                    out_file[i] = r.dir /\ out_file[i + 1] = r.id})

\* C29: over any sequence of runs on the same index with distinct File Paths,
\* each interrupted at any point (also in the middle of writing a row) and the
\* next resuming from the checkpoint, no File Path is written to the output
\* file more than once.
C29_NoPathWrittenTwice ==
    \A i \in DOMAIN input_index : TimesWritten(input_index[i]) <= 1

\* the input rows a run has to look at
Eligible(i) == input_index[i].kind # "short" /\ StartsWithEdgar(FilePath(input_index[i]))

\* the output file has the labelled row of input row r
HasLabelledRow(r) ==
    \E k \in DOMAIN NonEmptyLines(out_file) :
        NonEmptyLines(out_file)[k] = SubSeq(RowText(r), 1, Len(RowText(r)) - 1)

\* C30: when a run ends normally and every download has succeeded, every
\* input row under edgar/data/ whose text has "item 1.03" has its labelled row
\* in the output file; a resumed run has skipped exactly the rows up to and
\* including the checkpointed File Path and processed every row after it.
C30_CompleteAfterNormalEnd ==
    (pcLabel = "done" /\ ~failed_downloads) =>
        /\ \A i \in DOMAIN input_index :
              (Eligible(i) /\ input_index[i].item_103) => HasLabelledRow(input_index[i])
        /\ IF last_processed_path = NoPath
           THEN processed = {i \in DOMAIN input_index : Eligible(i)}
           ELSE \E k \in DOMAIN input_index :
                   /\ Eligible(k)
                   /\ FilePath(input_index[k]) = last_processed_path
                   /\ processed = {i \in DOMAIN input_index : Eligible(i) /\ i > k}

------------------------------------------------------------------------------
(* Specifications: one per component, the other components' variables idle *)

DbIdle ==
    /\ results_list = <<>>
    /\ db_table = {}
    /\ pcDb = "idle"

DiagIdle ==
    /\ diag_adsh = None
    /\ diag_num = <<>>
    /\ diag_report = NoReport
    /\ pcDiag = "idle"

RunIdle ==
    /\ target_year = NaN
    /\ quarter_dirs = <<>>
    /\ q_idx = 0
    /\ outcomes = <<>>
    /\ all_combined_data = <<>>
    /\ df_final = EmptyFrame
    /\ run_results = NoResult
    /\ pcRun = "idle"


LabelIdle ==
    /\ input_index = <<>>
    /\ out_file = <<>>
    /\ out_buffer = <<>>
    /\ last_processed_path = NoPath
    /\ found_checkpoint = FALSE
    /\ reader_pos = 0
    /\ processed = {}
    /\ failed_downloads = FALSE
    /\ runs = 0
    /\ pcLabel = "off"

RatioIdle ==
    /\ df = EmptyFrame
    /\ df_results = NoResult
    /\ z = NaN
    /\ prediction = None
    /\ pcRatio = "idle"

CanonIdle ==
    /\ canonical_map = <<>>
    /\ tag_rename_map = EmptyDict
    /\ lookup = [label |-> None, result |-> None]
    /\ pcCanon = "idle"

AsmIdle ==
    /\ files_exist = FALSE
    /\ sub = <<>>
    /\ num = <<>>
    /\ df_merged = EmptyFrame
    /\ pcAsm = "idle"

InitCanon == CanonInit /\ AsmIdle /\ RatioIdle /\ DbIdle /\ RunIdle /\ DiagIdle /\ LabelIdle

InitAsm == AsmInit /\ CanonIdle /\ RatioIdle /\ DbIdle /\ RunIdle /\ DiagIdle /\ LabelIdle

InitRatio == RatioInit /\ CanonIdle /\ AsmIdle /\ DbIdle /\ RunIdle /\ DiagIdle /\ LabelIdle

InitDb == DbInit /\ CanonIdle /\ AsmIdle /\ RatioIdle /\ RunIdle /\ DiagIdle /\ LabelIdle

\* a diagnosis next to one assembler call and one ratio call
InitDiag ==
    /\ DiagInit
    /\ files_exist = TRUE
    /\ sub = <<Meta("a1", "FY")>>
    /\ num = ValuedFactsOfFiling(WorkedFiling("a1"))
    /\ df_merged = EmptyFrame
    /\ pcAsm = "start"
    /\ df = FrameOf(<<WorkedFiling("a1")>>)
    /\ df_results = NoResult
    /\ z = NaN
    /\ prediction = None
    /\ pcRatio = "start"
    /\ DbIdle
    /\ RunIdle
    /\ LabelIdle

InitRun == RunInit /\ CanonIdle /\ AsmIdle /\ RatioIdle /\ DiagIdle /\ LabelIdle

InitLabel ==
    LabelInit /\ CanonIdle /\ AsmIdle /\ RatioIdle /\ DbIdle /\ RunIdle /\ DiagIdle

SpecCanon == InitCanon /\ [][CanonNext]_vars

SpecAsm == InitAsm /\ [][AsmNext]_vars

SpecRatio == InitRatio /\ [][RatioNext]_vars

SpecDb == InitDb /\ [][DbNext]_vars

SpecRun == InitRun /\ [][RunNext]_vars

SpecDiag == InitDiag /\ [][DiagNext]_vars

SpecLabel == InitLabel /\ [][LabelNext]_vars

====
